---------------------------- MODULE Spec2Model ----------------------------
(***************************************************************************)
(* Model of the filter-extraction and search pipeline of the crisis        *)
(* portal: POST /api/llm/extract-filters (provider fallback chain, keyword *)
(* normalizer, service-type validator), GET /api/resources/search (URL     *)
(* parsing, schema transform, policy default) and the backend client's     *)
(* retry loop, and GET /api/resources/[id] (id format test, backend call,  *)
(* error mapping).                                                         *)
(*                                                                         *)
(* Conventions.  A JavaScript object is a TLA+ function whose domain is    *)
(* the set of its defined properties: a property that is absent or holds   *)
(* undefined is not in the domain (JSON serialisation drops it).  A value  *)
(* whose JavaScript type the code does not control is a tagged record      *)
(* [t |-> <typeof-like tag>, v |-> <payload>].  Confidence scores are in   *)
(* hundredths (0.3 is 30).                                                 *)
(***************************************************************************)
EXTENDS Integers, Sequences, FiniteSets, TLC

VARIABLES
    \* ---- POST /api/llm/extract-filters ----
    apiKeys,      \* which of OPENAI_API_KEY / ANTHROPIC_API_KEY are set
    epc,          \* position of the handler: "idle", "await_provider", "responded"
    ebody,        \* request body of the request being served
    providers,    \* the filtered provider list of this request
    pidx,         \* index in providers of the provider being awaited
    calls,        \* providers invoked for this request: [provider, outcome, raw],
                  \* outcome "pending", "success" (extract returned) or the
                  \* kind of failure, raw what the SDK call settled with
    normalized,   \* number of createBasicFilters calls made for this request
    eresp,        \* the HTTP response of the request
    \* ---- GET /api/resources/search and the backend client ----
    spc,          \* "idle", "fetching", "waiting", "responded"
    caller,       \* "search" or "resource" (the GET handlers), or "direct" (a
                  \* bare client call)
    rid,          \* the id path parameter of the resource request being served
    surl,         \* URL parameters of the request being served
    sfilters,     \* filters parsed from the URL of the request being served
    sparams,      \* backend params given to BackendClient.searchResources
    method,       \* the BackendClient method in progress, or "none"
    attempt,      \* fetchWithRetry's loop variable
    fetches,      \* outcome of each fetch() of this call, in order
    waits,        \* backoff delays slept during this call, in order
    lastError,    \* fetchWithRetry's lastError
    cresult,      \* how the BackendClient call ended
    sresp,        \* the HTTP response of the request
    \* ---- transformFiltersToBackendParams applied to a filter object ----
    tin,          \* the filters
    tout,         \* "none", or what the call returned or threw
    tback,        \* "none", or what transformBackendSearchResponse made of a
                  \* backend response that echoes tout
    \* ---- validateExtractedFilters applied to an extraction result ----
    vin,          \* [response, query]: the arguments of the first call
    vout,         \* results of the successive calls, each on the previous result
    \* ---- createBasicFilters applied to a query ----
    nin,          \* the query
    nout,         \* "none", or the result and what the validator makes of it
    \* ---- FilterUtils.toURLParams, fromURLParams and the transform in a row ----
    uin,          \* the filters
    uout,         \* "none", or the URL, the filters parsed back, and what
                  \* transformFiltersToBackendParams makes of them
    \* ---- transformBackendSearchResponse as a function ----
    bin,          \* the backend response
    bout,         \* "none", or what transformBackendSearchResponse makes of it
    \* ---- the search page (SearchPageContent and its filters panel) ----
    pfilters,     \* the filters state
    presults,     \* the results state: 0 (null), or the number of the search
                  \* whose response is displayed
    isProcessing, \* the isProcessing state
    isSearching,  \* the isSearching state
    perror,       \* the error state: "null" or a message
    extracting,   \* number of extraction requests in flight
    searches      \* the searches issued, in order: [filters, state], state
                  \* "inflight", "ok" or "failed"

evars == <<apiKeys, epc, ebody, providers, pidx, calls, normalized, eresp>>
svars == <<spc, caller, rid, surl, sfilters, sparams, method, attempt, fetches, waits,
           lastError, cresult, sresp>>
tvars == <<tin, tout, tback, vin, vout, nin, nout, uin, uout, bin, bout>>
pvars == <<pfilters, presults, isProcessing, isSearching, perror, extracting, searches>>
vars == <<apiKeys, epc, ebody, providers, pidx, calls, normalized, eresp,
          spc, caller, rid, surl, sfilters, sparams, method, attempt, fetches, waits,
          lastError, cresult, sresp, tin, tout, tback, vin, vout, nin, nout,
          uin, uout, bin, bout,
          pfilters, presults, isProcessing, isSearching, perror, extracting, searches>>

(***************************************************************************)
(* JavaScript string helpers.                                              *)
(***************************************************************************)
UpperChars == "ABCDEFGHIJKLMNOPQRSTUVWXYZ"
LowerChars == "abcdefghijklmnopqrstuvwxyz"

\* String.prototype.includes
Includes(s, t) ==
    \E i \in 1..(Len(s) - Len(t) + 1) : SubSeq(s, i, i + Len(t) - 1) = t

LowerChar(c) ==
    IF \E i \in 1..26 : SubSeq(UpperChars, i, i) = c
    THEN LET i == CHOOSE j \in 1..26 : SubSeq(UpperChars, j, j) = c
         IN  SubSeq(LowerChars, i, i)
    ELSE c

RECURSIVE LowerFrom(_, _)
LowerFrom(s, i) ==
    IF i > Len(s) THEN "" ELSE LowerChar(SubSeq(s, i, i)) \o LowerFrom(s, i + 1)

\* String.prototype.toLowerCase
ToLowerCase(s) == LowerFrom(s, 1)

IsSpace(c) == c \in {" ", "\t", "\n"}

\* index of the first and of the last character that is not white space
FirstInk(s) ==
    IF \E i \in 1..Len(s) : ~IsSpace(SubSeq(s, i, i))
    THEN CHOOSE i \in 1..Len(s) :
             /\ ~IsSpace(SubSeq(s, i, i))
             /\ \A j \in 1..(i - 1) : IsSpace(SubSeq(s, j, j))
    ELSE Len(s) + 1

LastInk(s) ==
    IF \E i \in 1..Len(s) : ~IsSpace(SubSeq(s, i, i))
    THEN CHOOSE i \in 1..Len(s) :
             /\ ~IsSpace(SubSeq(s, i, i))
             /\ \A j \in (i + 1)..Len(s) : IsSpace(SubSeq(s, j, j))
    ELSE 0

\* the query taken as it is, white space kept
Trim_None(s) == s

\* String.prototype.trim
Trim(s) == SubSeq(s, FirstInk(s), LastInk(s))

\* obj.key, for an object whose absent properties read as undefined
Has(obj, key) == key \in DOMAIN obj

\* { ...obj, key: value }
With(obj, key, value) == (key :> value) @@ obj

\* obj without key
Without(obj, key) == [k \in (DOMAIN obj) \ {key} |-> obj[k]]

EmptyObject == [k \in {} |-> TRUE]


(***************************************************************************)
(* Canonical vocabulary and alias table (extract-filters/route.ts).        *)
(***************************************************************************)
VALID_SERVICE_TYPES ==
    { "crisis_line", "crisis_text", "crisis_chat", "crisis_mobile",
      "crisis_walk_in", "crisis_stabilization", "suicide_prevention",
      "inpatient_psychiatric", "inpatient_dual_diagnosis",
      "residential_long_term", "residential_short_term", "partial_hospitalization",
      "outpatient_therapy", "intensive_outpatient", "medication_management",
      "telehealth_therapy", "case_management", "peer_support",
      "detox", "detox_social", "sud_inpatient", "sud_outpatient",
      "mat", "recovery_support", "harm_reduction",
      "support_group_general", "support_group_aa", "support_group_na",
      "support_group_smart", "support_group_family", "support_group_grief",
      "housing", "food", "transportation", "legal", "employment",
      "healthcare", "education", "financial" }

\* the own properties of the SERVICE_TYPE_ALIASES object literal
SERVICE_TYPE_ALIASES ==
    [ crisis_hotline |-> "crisis_line",
      hotline |-> "crisis_line",
      emergency_services |-> "crisis_line",
      emergency |-> "crisis_line",
      suicide_hotline |-> "suicide_prevention",
      mental_health |-> "outpatient_therapy",
      therapy |-> "outpatient_therapy",
      counseling |-> "outpatient_therapy",
      inpatient |-> "inpatient_psychiatric",
      residential |-> "residential_short_term",
      rehab |-> "sud_inpatient",
      detoxification |-> "detox" ] @@ ("988" :> "crisis_line")

\* SERVICE_TYPE_ALIASES is a plain object literal, so a property read also
\* finds the members it inherits from Object.prototype
ObjectPrototypeKeys ==
    { "constructor", "toString", "toLocaleString", "valueOf", "hasOwnProperty",
      "isPrototypeOf", "propertyIsEnumerable", "__proto__" }

\* the (truthy, non-string) function or object such a read yields
InheritedMember(type) == "[Object.prototype." \o type \o "]"

\* the expression SERVICE_TYPE_ALIASES[type]; "undefined" is [t |-> "undefined"]
AliasLookup(type) ==
    IF type \in DOMAIN SERVICE_TYPE_ALIASES
    THEN [t |-> "string", v |-> SERVICE_TYPE_ALIASES[type]]
    ELSE IF type \in ObjectPrototypeKeys
         THEN [t |-> "object", v |-> InheritedMember(type)]
         ELSE [t |-> "undefined", v |-> ""]

RECURSIVE MapServiceTypes(_)
\* the forEach of validateExtractedFilters: the mappedTypes it builds
MapServiceTypes(types) ==
    IF types = <<>> THEN <<>>
    ELSE LET type == Head(types)
             rest == MapServiceTypes(Tail(types))
         IN  IF type \in VALID_SERVICE_TYPES THEN <<type>> \o rest
             ELSE IF AliasLookup(type).t # "undefined"
                  THEN <<AliasLookup(type).v>> \o rest
                  ELSE rest

RECURSIVE Dedup(_)
\* [...new Set(list)]: first occurrences, in order
Dedup(list) ==
    IF list = <<>> THEN <<>>
    ELSE LET init == Dedup(SubSeq(list, 1, Len(list) - 1))
             last == list[Len(list)]
         IN  IF \E i \in 1..Len(init) : init[i] = last THEN init
             ELSE Append(init, last)

\* A thrown exception or a returned value
Threw(msg) == [threw |-> TRUE, error |-> msg]
Returned(value) == [threw |-> FALSE, value |-> value]

\* the validator with the keywords fallback taken whatever the corrected list
ValidateExtractedFilters_AlwaysKeywords(response, originalQuery) ==
    IF ~Has(response.filters, "service_types")
    THEN Returned(response)
    ELSE LET st == response.filters["service_types"]
         IN  IF st.t # "array"
             THEN Threw("response.filters.service_types.forEach is not a function")
             ELSE LET cleaned == Dedup(MapServiceTypes(st.v))
                      f1 == With(response.filters, "service_types",
                                 [t |-> "array", v |-> cleaned])
                      f2 == IF originalQuery # ""
                            THEN With(f1, "keywords", originalQuery)
                            ELSE f1
                  IN  Returned([response EXCEPT !.filters = f2])

\* validateExtractedFilters(response, originalQuery)
\* service_types is [t |-> "array", v |-> <<...>>] or a truthy non-array
ValidateExtractedFilters(response, originalQuery) ==
    IF ~Has(response.filters, "service_types")
    THEN Returned(response)
    ELSE LET st == response.filters["service_types"]
         IN  IF st.t # "array"
             THEN Threw("response.filters.service_types.forEach is not a function")
             ELSE LET cleaned == Dedup(MapServiceTypes(st.v))
                      f1 == With(response.filters, "service_types",
                                 [t |-> "array", v |-> cleaned])
                      f2 == IF Len(cleaned) = 0 /\ originalQuery # ""
                            THEN With(f1, "keywords", originalQuery)
                            ELSE f1
                  IN  Returned([response EXCEPT !.filters = f2])

(***************************************************************************)
(* Keyword normalizer (createBasicFilters).                                *)
(***************************************************************************)
IncludesAny(s, words) == \E w \in words : Includes(s, w)

\* confidence of the keyword tier, in hundredths
FallbackConfidence == 30

\* max_distance_km the keyword tier sets
DefaultRadiusKm == 25

\* confidence of a provider result that carries none (or 0), in hundredths
DefaultProviderConfidence == 70

\* the care phase tests with the acute tier tried before the crisis tier
BasicCarePhase_AcuteFirst(queryLower) ==
    IF IncludesAny(queryLower, {"acute", "urgent", "recent"})
    THEN "acute_support"
    ELSE IF IncludesAny(queryLower, {"emergency", "suicide", "immediate", "crisis"})
    THEN "immediate_crisis"
    ELSE IF IncludesAny(queryLower, {"recovery", "rehabilitation", "ongoing"})
    THEN "recovery_support"
    ELSE IF IncludesAny(queryLower, {"maintenance", "preventive", "wellness"})
    THEN "maintenance"
    ELSE "undefined"

BasicCarePhase(queryLower) ==
    IF IncludesAny(queryLower, {"emergency", "suicide", "immediate", "crisis"})
    THEN "immediate_crisis"
    ELSE IF IncludesAny(queryLower, {"acute", "urgent", "recent"})
    THEN "acute_support"
    ELSE IF IncludesAny(queryLower, {"recovery", "rehabilitation", "ongoing"})
    THEN "recovery_support"
    ELSE IF IncludesAny(queryLower, {"maintenance", "preventive", "wellness"})
    THEN "maintenance"
    ELSE "undefined"

BasicGender(queryLower) ==
    IF IncludesAny(queryLower, {"women", "female", "girls"}) THEN "female"
    ELSE IF IncludesAny(queryLower, {"men", "male", "boys"}) THEN "male"
    ELSE "undefined"

\* { ...obj, key: value } where an undefined value leaves the property out
WithIf(obj, cond, key, value) == IF cond THEN With(obj, key, value) ELSE obj

\* keywords of the keyword tier, with the query trimmed
BasicKeywords_Trimmed(query) == Trim(query)

\* keywords of the keyword tier: the query as given
BasicKeywords(query) == query

\* createBasicFilters(query)
CreateBasicFilters(query) ==
    LET queryLower == ToLowerCase(query)
        care_phase == BasicCarePhase(queryLower)
        gender_specific == BasicGender(queryLower)
        has_crisis_services ==
            IncludesAny(queryLower, {"crisis", "emergency", "hotline"})
        walk_ins_accepted ==
            IncludesAny(queryLower, {"walk-in", "walk in", "drop-in", "drop in",
                                     "no appointment", "without appointment"})
        referral_required ==
            IncludesAny(queryLower, {"referral", "referred", "recommendation",
                                     "by referral"})
        urgentAccessOnly ==
            IncludesAny(queryLower, {"urgent", "crisis", "emergency", "now", "immediate"})
        f0 == [keywords |-> BasicKeywords(query), urgentAccessOnly |-> urgentAccessOnly,
               max_distance_km |-> DefaultRadiusKm]
        f1 == WithIf(f0, care_phase # "undefined", "care_phase", care_phase)
        f2 == WithIf(f1, has_crisis_services, "has_crisis_services", TRUE)
        f3 == WithIf(f2, gender_specific # "undefined", "gender_specific", gender_specific)
        f4 == WithIf(f3, walk_ins_accepted, "walk_ins_accepted", TRUE)
        f5 == WithIf(f4, referral_required, "referral_required", TRUE)
        explanation ==
            "Searching for resources related to: \"" \o query \o "\"."
            \o (IF care_phase # "undefined"
                THEN " Identified care phase: " \o care_phase \o "." ELSE "")
            \o (IF gender_specific # "undefined"
                THEN " Filtering for " \o gender_specific \o "-specific services." ELSE "")
            \o (IF has_crisis_services THEN " Prioritizing crisis services." ELSE "")
            \o (IF walk_ins_accepted THEN " Showing walk-in accessible facilities." ELSE "")
            \o (IF referral_required THEN " Showing referral-based services." ELSE "")
            \o " (Using basic keyword matching - LLM services unavailable)"
    IN  [ originalQuery |-> query,
          filters |-> f5,
          explanation |-> explanation,
          confidence |-> FallbackConfidence,
          metadata |-> [provider |-> "fallback", model |-> "keyword-matching",
                        tokens |-> [input |-> Len(query), output |-> 50]] ]

(***************************************************************************)
(* Provider adapters and orchestrator (llm-fallback.ts).                   *)
(***************************************************************************)
ProviderModel(name) ==
    IF name = "openai" THEN "gpt-4-turbo-preview" ELSE "claude-3-5-sonnet-20241022"

\* OpenAIProvider.extract / AnthropicProvider.extract once the SDK call has
\* settled with `outcome`: kind "network_error" (the call rejects),
\* "empty_content" (no text content), "malformed_json" (JSON.parse throws) or
\* "ok" with the parsed object
ProviderExtract(name, query, outcome) ==
    IF ~apiKeys[name] THEN Threw(name \o " API key not configured")
    ELSE IF outcome.kind = "network_error" THEN Threw("network error")
    ELSE IF outcome.kind = "empty_content" THEN Threw(name \o " returned empty response")
    ELSE IF outcome.kind = "malformed_json" THEN Threw("Unexpected token in JSON")
    ELSE LET parsed == outcome.parsed
         IN  Returned(
               [ originalQuery |-> query,
                 filters |-> IF Has(parsed, "filters") THEN parsed["filters"]
                             ELSE EmptyObject,
                 explanation |-> IF Has(parsed, "explanation") /\ parsed["explanation"] # ""
                                 THEN parsed["explanation"]
                                 ELSE "Extracted filters from: \"" \o query \o "\"",
                 confidence |-> IF Has(parsed, "confidence") /\ parsed["confidence"] # 0
                                THEN parsed["confidence"]
                                ELSE DefaultProviderConfidence,
                 metadata |-> [provider |-> name, model |-> ProviderModel(name),
                               tokens |-> outcome.usage] ])

\* the filtered, ordered provider list of extractFiltersWithFallback
ConfiguredProviders ==
    SelectSeq(<<"openai", "anthropic">>, LAMBDA p : apiKeys[p])

(***************************************************************************)
(* Inputs of the extraction endpoint.                                      *)
(***************************************************************************)
\* longest service_types list a provider returns
MaxTypes == 2

SeqsUpTo(S, n) == UNION { [1..k -> S] : k \in 0..n }

\* canonical codes, alias keys, an unknown code and an Object.prototype key
TypeVocab ==
    { "crisis_line", "detox", "crisis_hotline", "hotline", "therapy",
      "bogus_code", "constructor" }

Queries ==
    { "", "  ", " \t", "hello", "EMERGENCY help now", "women in recovery",
      "need a crisis hotline", "urgent walk-in", "recommendation please" }

\* request bodies: query missing, or a string
ExtractBodies == { EmptyObject } \cup { [query |-> q] : q \in Queries }

\* service_types as a provider may return it: a list, or a string
ProviderServiceTypes ==
    { [t |-> "array", v |-> l] : l \in SeqsUpTo(TypeVocab, MaxTypes) }
        \cup { [t |-> "string", v |-> "crisis_line"] }

\* the filters object of a provider's JSON
ProviderFilters ==
    LET kws == { EmptyObject, [keywords |-> "llm terms"] }
    IN  kws \cup { With(k, "service_types", st) : k \in kws, st \in ProviderServiceTypes }

ProviderParsed ==
    { EmptyObject, [confidence |-> 0], [explanation |-> "llm says"] }
        \cup { [filters |-> f] : f \in ProviderFilters }
        \cup { [filters |-> f, confidence |-> 90] : f \in ProviderFilters }

ProviderOutcomes ==
    { [kind |-> k] : k \in {"network_error", "empty_content", "malformed_json"} }
        \cup { [kind |-> "ok", parsed |-> p, usage |-> [input |-> 120, output |-> 40]]
               : p \in ProviderParsed }

(***************************************************************************)
(* POST /api/llm/extract-filters.                                          *)
(***************************************************************************)
Json(status, body) == [status |-> status, body |-> body]

NoResponse == [status |-> 0, body |-> EmptyObject]

\* POST without its inner catch: the providers' error reaches the outer catch
RespondFallback_NoCatch(query) ==
    Json(500, [error |-> "Failed to extract filters", details |-> "network error"])

\* the catch (llmError) branch of POST, and the outer catch behind it
RespondFallback(query) ==
    LET validated == ValidateExtractedFilters(CreateBasicFilters(query), query)
    IN  IF validated.threw
        THEN Json(500, [error |-> "Failed to extract filters", details |-> validated.error])
        ELSE Json(200, validated.value)

\* the try branch of POST once extractFiltersWithFallback has returned `result`
RespondValidated(result, query) ==
    LET validated == ValidateExtractedFilters(result, query)
    IN  IF validated.threw THEN RespondFallback(query)
        ELSE Json(200, validated.value)

\* whether RespondValidated ends in the keyword tier
FallsBack(result, query) == ValidateExtractedFilters(result, query).threw

\* an entry of calls: the provider is invoked and has not settled
Pending(name) == [provider |-> name, outcome |-> "pending", raw |-> [kind |-> "pending"]]

\* POST up to its first await: input validation, the provider filter, and
\* either the keyword tier (no provider configured) or the first provider call
PostExtract(body) ==
    /\ epc \in {"idle", "responded"}
    /\ ebody' = body
    /\ IF ~Has(body, "query") \/ Trim(body["query"]) = ""
       THEN /\ eresp' = Json(400, [error |-> "Query is required"])
            /\ epc' = "responded"
            /\ providers' = <<>>
            /\ pidx' = 0
            /\ calls' = <<>>
            /\ normalized' = 0
       ELSE /\ providers' = ConfiguredProviders
            /\ IF Len(ConfiguredProviders) = 0
               THEN /\ eresp' = RespondFallback(body["query"])
                    /\ epc' = "responded"
                    /\ pidx' = 0
                    /\ calls' = <<>>
                    /\ normalized' = 1
               ELSE /\ eresp' = NoResponse
                    /\ epc' = "await_provider"
                    /\ pidx' = 1
                    /\ calls' = << Pending(ConfiguredProviders[1]) >>
                    /\ normalized' = 0
    /\ UNCHANGED <<apiKeys, svars, tvars, pvars>>

\* the awaited provider call settles: the rest of the for loop of
\* extractFiltersWithFallback and of POST up to the next await or the response
ProviderResponds(outcome) ==
    /\ epc = "await_provider"
    /\ LET query == ebody["query"]
           name == providers[pidx]
           result == ProviderExtract(name, query, outcome)
           settled == [calls EXCEPT ![pidx] =
                          [provider |-> name,
                           outcome |-> IF result.threw THEN outcome.kind ELSE "success",
                           raw |-> outcome]]
       IN  IF ~result.threw
           THEN /\ eresp' = RespondValidated(result.value, query)
                /\ normalized' = IF FallsBack(result.value, query) THEN 1 ELSE 0
                /\ epc' = "responded"
                /\ calls' = settled
                /\ pidx' = pidx
           ELSE IF pidx < Len(providers)
           THEN /\ calls' = Append(settled, Pending(providers[pidx + 1]))
                /\ pidx' = pidx + 1
                /\ UNCHANGED <<eresp, normalized, epc>>
           ELSE /\ eresp' = RespondFallback(query)
                /\ normalized' = 1
                /\ epc' = "responded"
                /\ calls' = settled
                /\ pidx' = pidx
    /\ UNCHANGED <<apiKeys, ebody, providers, svars, tvars, pvars>>

Pendent == [status |-> "pending"]

SearchIdle ==
    /\ spc = "idle"
    /\ caller = "direct"
    /\ rid = ""
    /\ surl = <<>>
    /\ sfilters = EmptyObject
    /\ sparams = EmptyObject
    /\ method = "none"
    /\ attempt = 0
    /\ fetches = <<>>
    /\ waits = <<>>
    /\ lastError = "null"
    /\ cresult = Pendent
    /\ sresp = NoResponse

\* no URL round trip under way
URLIdle ==
    /\ uin = EmptyObject
    /\ uout = [status |-> "none"]

\* no transformBackendSearchResponse call outside a request
ReverseIdle ==
    /\ bin = [t |-> "undefined"]
    /\ bout = [status |-> "none"]

\* the search page as mounted, before any search
PageIdle ==
    /\ pfilters = EmptyObject
    /\ presults = 0
    /\ isProcessing = FALSE
    /\ isSearching = FALSE
    /\ perror = "null"
    /\ extracting = 0
    /\ searches = <<>>

\* no validateExtractedFilters call outside a request
ValidateIdle ==
    /\ vin = [response |-> [filters |-> EmptyObject], query |-> ""]
    /\ vout = <<>>

\* no createBasicFilters call outside a request
NormalizeIdle ==
    /\ nin = ""
    /\ nout = [status |-> "none"]

TransformIdle ==
    /\ tin = EmptyObject
    /\ tout = [status |-> "none"]
    /\ tback = [status |-> "none"]
    /\ URLIdle
    /\ ValidateIdle
    /\ NormalizeIdle

ExtractIdle ==
    /\ epc = "idle"
    /\ ebody = EmptyObject
    /\ providers = <<>>
    /\ pidx = 0
    /\ calls = <<>>
    /\ normalized = 0
    /\ eresp = NoResponse

ExtractInit ==
    /\ apiKeys \in [{"openai", "anthropic"} -> BOOLEAN]
    /\ ExtractIdle
    /\ SearchIdle
    /\ PageIdle
    /\ ReverseIdle
    /\ TransformIdle

ExtractNext ==
    \/ \E body \in ExtractBodies : PostExtract(body)
    \/ \E outcome \in ProviderOutcomes : ProviderResponds(outcome)

SpecExtract == ExtractInit /\ [][ExtractNext]_vars

(***************************************************************************)
(* JavaScript values of the search side.  What FilterUtils.fromURLParams   *)
(* yields is untyped, so every value is tagged with its type:              *)
(*   [t |-> "string", v], [t |-> "boolean", v], [t |-> "array", v] (v a    *)
(*   sequence of values), [t |-> "object", v] (v a function from property  *)
(*   names to values), [t |-> "null"], [t |-> "undefined"], and numbers    *)
(*   [t |-> "number", k, v] with k "finite" (v an integer), "NaN",         *)
(*   "Infinity" or "-Infinity".                                            *)
(***************************************************************************)
Undefined == [t |-> "undefined"]
Null == [t |-> "null"]
Str(s) == [t |-> "string", v |-> s]
Bool(b) == [t |-> "boolean", v |-> b]
Num(n) == [t |-> "number", k |-> "finite", v |-> n]
NaN == [t |-> "number", k |-> "NaN", v |-> 0]
PlusInfinity == [t |-> "number", k |-> "Infinity", v |-> 0]
Arr(items) == [t |-> "array", v |-> items]
Obj(props) == [t |-> "object", v |-> props]

\* typeof x
TypeOf(x) == IF x.t \in {"array", "null"} THEN "object" ELSE x.t

\* whether `if (x)` takes the branch
Truthy(x) ==
    CASE x.t \in {"undefined", "null"} -> FALSE
      [] x.t = "boolean" -> x.v
      [] x.t = "number" -> IF x.k = "finite" THEN x.v # 0 ELSE x.k # "NaN"
      [] x.t = "string" -> x.v # ""
      [] OTHER -> TRUE

\* x.key (x is not null or undefined)
Get(x, key) ==
    IF x.t = "object" /\ key \in DOMAIN x.v THEN x.v[key]
    ELSE IF x.t \in {"string", "array"} /\ key = "length" THEN Num(Len(x.v))
    ELSE Undefined

\* x?.key
OptGet(x, key) == IF x.t \in {"undefined", "null"} THEN Undefined ELSE Get(x, key)

\* filters.key of the parsed filters (a function from names to values)
Field(filters, key) == IF key \in DOMAIN filters THEN filters[key] ELSE Undefined

RECURSIVE ToStr(_)
RECURSIVE JoinFrom(_, _, _)
\* items.slice(i - 1).join(sep)
JoinFrom(items, i, sep) ==
    IF i > Len(items) THEN ""
    ELSE (IF items[i].t \in {"undefined", "null"} THEN "" ELSE ToStr(items[i]))
         \o (IF i < Len(items) THEN sep ELSE "")
         \o JoinFrom(items, i + 1, sep)

\* String(x), x.toString() and `${x}`
ToStr(x) ==
    CASE x.t = "string" -> x.v
      [] x.t = "boolean" -> IF x.v THEN "true" ELSE "false"
      [] x.t = "number" -> IF x.k = "finite" THEN ToString(x.v) ELSE x.k
      [] x.t = "array" -> JoinFrom(x.v, 1, ",")
      [] x.t = "object" -> "[object Object]"
      [] OTHER -> x.t

Digits == "0123456789"

IsDigit(c) == \E d \in 1..10 : SubSeq(Digits, d, d) = c

DigitValue(c) == (CHOOSE d \in 1..10 : SubSeq(Digits, d, d) = c) - 1

RECURSIVE DigitsValue(_, _)
\* the value of the decimal digits s[1..n]
DigitsValue(s, n) ==
    IF n = 0 THEN 0 ELSE 10 * DigitsValue(s, n - 1) + DigitValue(SubSeq(s, n, n))

AllDigits(s) == Len(s) > 0 /\ \A i \in 1..Len(s) : IsDigit(SubSeq(s, i, i))

\* Number(text), for the texts of the model: blank, or a decimal integer
\* with an optional sign; anything else is NaN
ToNumber(text) ==
    LET s == Trim(text)
    IN  IF s = "" THEN Num(0)
        ELSE IF AllDigits(s) THEN Num(DigitsValue(s, Len(s)))
        ELSE IF SubSeq(s, 1, 1) = "-" /\ AllDigits(SubSeq(s, 2, Len(s)))
             THEN Num(0 - DigitsValue(SubSeq(s, 2, Len(s)), Len(s) - 1))
        ELSE NaN

(***************************************************************************)
(* FilterUtils.fromURLParams (types/search.ts).  A URL is the sequence of  *)
(* its <<key, value>> pairs, as URLSearchParams iterates them.             *)
(***************************************************************************)
LocDenverText == "{\"address\":\"Denver\",\"coordinates\":{\"lat\":39,\"lon\":-104}}"
LocOriginText == "{\"address\":\"Null Island\",\"coordinates\":{\"lat\":0,\"lon\":0}}"
LocNullLatText == "{\"address\":\"Denver\",\"coordinates\":{\"lat\":null,\"lon\":-104}}"
LocHugeLatText == "{\"address\":\"Denver\",\"coordinates\":{\"lat\":1e999,\"lon\":-104}}"
LocAddressText == "{\"address\":\"Denver\"}"

Location(address, lat, lon) ==
    Obj([address |-> Str(address),
         coordinates |-> Obj([lat |-> lat, lon |-> lon])])

\* JSON.parse on the JSON texts of the model; every other text of the model
\* that starts with { or [ is not JSON
JsonTexts ==
    (LocDenverText :> Location("Denver", Num(39), Num(-104)))
    @@ (LocOriginText :> Location("Null Island", Num(0), Num(0)))
    @@ (LocNullLatText :> Location("Denver", Null, Num(-104)))
    @@ (LocHugeLatText :> Location("Denver", PlusInfinity, Num(-104)))
    @@ (LocAddressText :> Obj([address |-> Str("Denver")]))
    @@ ("[]" :> Arr(<<>>))
    @@ ("[\"crisis_line\"]" :> Arr(<<Str("crisis_line")>>))

JsonParse(text) ==
    IF text \in DOMAIN JsonTexts THEN Returned(JsonTexts[text])
    ELSE Threw("SyntaxError: Unexpected token")

StartsWith(s, prefix) == Len(s) >= Len(prefix) /\ SubSeq(s, 1, Len(prefix)) = prefix

\* params.getAll(key)
GetAll(url, key) ==
    LET hits == SelectSeq(url, LAMBDA e : e[1] = key)
    IN  [i \in 1..Len(hits) |-> hits[i][2]]

\* the value fromURLParams stores for a key that occurs once
ParseValue(value) ==
    IF StartsWith(value, "{") \/ StartsWith(value, "[")
    THEN IF JsonParse(value).threw THEN Str(value) ELSE JsonParse(value).value
    ELSE IF value \in {"true", "false"} THEN Bool(value = "true")
    ELSE IF ToNumber(value).k # "NaN" THEN ToNumber(value)
    ELSE Str(value)

\* FilterUtils.fromURLParams(params)
FromURLParams(url) ==
    [ key \in { url[i][1] : i \in 1..Len(url) } |->
        IF Len(GetAll(url, key)) > 1
        THEN Arr([i \in 1..Len(GetAll(url, key)) |-> Str(GetAll(url, key)[i])])
        ELSE ParseValue(GetAll(url, key)[1]) ]

(***************************************************************************)
(* transformFiltersToBackendParams (lib/api/transform.ts).                 *)
(***************************************************************************)
\* if (filters[from]) params[to] = filters[from]
CopyIfTruthy(params, filters, from, to) ==
    IF Truthy(Field(filters, from)) THEN With(params, to, Field(filters, from))
    ELSE params

\* if (filters[from]) params[to] = filters[from].toString()
StringIfTruthy(params, filters, from, to) ==
    IF Truthy(Field(filters, from)) THEN With(params, to, Str(ToStr(Field(filters, from))))
    ELSE params

\* if (filters[from] !== undefined) params[to] = filters[from].toString()
StringIfDefined(params, filters, from, to) ==
    IF Field(filters, from).t # "undefined"
    THEN With(params, to, Str(ToStr(Field(filters, from))))
    ELSE params

\* the `filters[from]?.length` test of the list fields
HasLength(filters, from) == Truthy(OptGet(Field(filters, from), "length"))

\* if (filters[from]?.length) params[to] = filters[from].join(',')
\* (only called once every list field with a length is known to be an array)
JoinIfLength(params, filters, from, to) ==
    IF HasLength(filters, from)
    THEN With(params, to, Str(JoinFrom(Field(filters, from).v, 1, ",")))
    ELSE params

ListFields == <<"service_types", "insurance", "languages", "age_groups">>

\* the first list field whose .join is not a function, or 0
FirstUnjoinable(filters) ==
    LET bad == { i \in 1..Len(ListFields) :
                    HasLength(filters, ListFields[i])
                    /\ Field(filters, ListFields[i]).t # "array" }
    IN  IF bad = {} THEN 0 ELSE CHOOSE i \in bad : \A j \in bad : i <= j

\* the location block of transformFiltersToBackendParams: the coordinates
\* pass when both are of type number
CoordinatesOk(lat, lon) == TypeOf(lat) = "number" /\ TypeOf(lon) = "number"

\* a transform that forwards every field of filters under its own name
TransformFiltersToBackendParams_Spread(filters) ==
    Returned([k \in DOMAIN filters |-> Str(ToStr(filters[k]))])

\* transformFiltersToBackendParams(filters)
TransformFiltersToBackendParams(filters) ==
    LET coordinates == OptGet(Field(filters, "location"), "coordinates")
        lat == Get(coordinates, "lat")
        lon == Get(coordinates, "lon")
        p1 == CopyIfTruthy(EmptyObject, filters, "keywords", "query")
        p2 == IF Truthy(coordinates)
              THEN With(p1, "location", Str(ToStr(lat) \o "," \o ToStr(lon)))
              ELSE p1
        p3 == StringIfTruthy(p2, filters, "max_distance_km", "radius_km")
        p4 == JoinIfLength(p3, filters, "service_types", "service_types")
        p5 == JoinIfLength(p4, filters, "insurance", "insurance_types")
        p6 == JoinIfLength(p5, filters, "languages", "languages")
        p7 == JoinIfLength(p6, filters, "age_groups", "age_groups")
        p8 == StringIfDefined(p7, filters, "has_crisis_services", "has_crisis_services")
        p9 == StringIfDefined(p8, filters, "walk_ins_accepted", "walk_ins_accepted")
        p10 == StringIfDefined(p9, filters, "referral_required", "referral_required")
        p11 == CopyIfTruthy(p10, filters, "gender_specific", "gender_specific")
        p12 == StringIfDefined(p11, filters, "lgbtq_affirming", "lgbtq_affirming")
        p13 == StringIfDefined(p12, filters, "wheelchair_accessible", "wheelchair_accessible")
        p14 == StringIfDefined(p13, filters, "telehealth_available", "telehealth_available")
        p15 == StringIfDefined(p14, filters, "urgentAccessOnly", "urgent_access_only")
        p16 == StringIfDefined(p15, filters, "acceptingNewPatients", "accepting_new_patients")
        p17 == CopyIfTruthy(p16, filters, "care_phase", "care_phase")
        p18 == StringIfDefined(p17, filters, "verified_only", "verified_only")
        p19 == StringIfDefined(p18, filters, "min_rcs", "min_confidence")
        p20 == StringIfTruthy(p19, filters, "limit", "limit")
        p21 == StringIfTruthy(p20, filters, "offset", "offset")
    IN  IF Truthy(coordinates) /\ ~CoordinatesOk(lat, lon)
        THEN Threw("Invalid location coordinates: lat=" \o ToStr(lat)
                   \o " (" \o TypeOf(lat) \o "), lon=" \o ToStr(lon)
                   \o " (" \o TypeOf(lon) \o ")")
        ELSE IF FirstUnjoinable(filters) # 0
        THEN Threw("filters." \o ListFields[FirstUnjoinable(filters)]
                   \o ".join is not a function")
        ELSE Returned(p21)

(***************************************************************************)
(* transformBackendSearchResponse (lib/api/transform.ts).  Scores of the   *)
(* backend response (numbers in [0,1]) are held in hundredths.             *)
(***************************************************************************)
\* a || b
Or(a, b) == IF Truthy(a) THEN a ELSE b

\* { ...obj, key: value } as JSON serialises it: undefined is left out
Put(obj, key, value) == IF value.t = "undefined" THEN obj ELSE With(obj, key, value)

\* match_score and rcs when the backend supplies none: 0.5
DefaultScore == 50

\* index of the first "," of s at or after i, or Len(s) + 1
NextComma(s, i) ==
    IF \E j \in i..Len(s) : SubSeq(s, j, j) = ","
    THEN CHOOSE j \in i..Len(s) :
             SubSeq(s, j, j) = "," /\ \A h \in i..(j - 1) : SubSeq(s, h, h) # ","
    ELSE Len(s) + 1

RECURSIVE SplitFrom(_, _)
\* s.slice(i - 1).split(',')
SplitFrom(s, i) ==
    LET j == NextComma(s, i)
    IN  <<SubSeq(s, i, j - 1)>> \o (IF j > Len(s) THEN <<>> ELSE SplitFrom(s, j + 1))

\* parseLocation(locationString), called with a truthy locationString
ParseLocation(location) ==
    LET parts == SplitFrom(ToStr(location), 1)
        lat == ToNumber(parts[1])
        lon == IF Len(parts) >= 2 THEN ToNumber(parts[2]) ELSE Undefined
    IN  IF Truthy(lat) /\ Truthy(lon) THEN Obj([lat |-> lat, lon |-> lon])
        ELSE Undefined

\* x ? Number(x) : undefined
NumberIfTruthy(x) == IF Truthy(x) THEN ToNumber(ToStr(x)) ELSE Undefined

\* list?.map(e => typeof e === 'string' ? e : e.code), for a list that is
\* undefined or an array
MapCodes(list) ==
    IF list.t = "undefined" THEN Undefined
    ELSE Arr([i \in 1..Len(list.v) |->
                 IF list.v[i].t = "string" THEN list.v[i] ELSE Get(list.v[i], "code")])

\* whether x?.map(...) throws: x is neither undefined, null nor an array
MapThrows(x) == x.t \notin {"undefined", "null", "array"}

\* an object literal as JSON serialises it: undefined properties are left out
Compact(literal) ==
    [k \in {h \in DOMAIN literal : literal[h].t # "undefined"} |-> literal[k]]

\* transformBackendFilters(backendFilters), backendFilters an object
TransformBackendFilters(bf) ==
    LET loc == Get(bf, "location")
        literal ==
          [keywords |-> Get(bf, "query"),
           location |-> IF Truthy(loc)
                        THEN Obj(Put([address |-> loc], "coordinates", ParseLocation(loc)))
                        ELSE Undefined,
           max_distance_km |-> NumberIfTruthy(Get(bf, "radius_km")),
           service_types |-> MapCodes(Get(bf, "service_types")),
           insurance |-> MapCodes(Get(bf, "insurance_types")),
           languages |-> MapCodes(Get(bf, "languages")),
           age_groups |-> Get(bf, "age_groups"),
           has_crisis_services |-> Get(bf, "has_crisis_services"),
           walk_ins_accepted |-> Get(bf, "walk_ins_accepted"),
           referral_required |-> Get(bf, "referral_required"),
           gender_specific |-> Get(bf, "gender_specific"),
           lgbtq_affirming |-> Get(bf, "lgbtq_affirming"),
           wheelchair_accessible |-> Get(bf, "wheelchair_accessible"),
           telehealth_available |-> Get(bf, "telehealth_available"),
           urgentAccessOnly |-> Get(bf, "urgent_access_only"),
           acceptingNewPatients |-> Get(bf, "accepting_new_patients"),
           care_phase |-> Get(bf, "care_phase"),
           verified_only |-> Get(bf, "verified_only"),
           min_rcs |-> NumberIfTruthy(Get(bf, "min_confidence")),
           limit |-> NumberIfTruthy(Get(bf, "limit")),
           offset |-> NumberIfTruthy(Get(bf, "offset"))]
    IN  IF \E k \in {"service_types", "insurance_types", "languages"} :
               MapThrows(Get(bf, k))
        THEN Threw("backendFilters list .map is not a function")
        ELSE Returned(Obj(Compact(literal)))

\* the match_reasons entry of one criterion
MatchReason(criterion) ==
    Obj([category |-> Str("service"), field |-> criterion, matched_value |-> Bool(TRUE),
         confidence |-> Str("verified"),
         explanation |-> Str("Matched " \o ToStr(criterion))])

\* the services entry of one backend service
ServiceEntry(svc, verification) ==
    Obj(Compact(
        [id |-> Or(Get(svc, "id"), Get(svc, "name")),
         name |-> Get(svc, "name"),
         service_type |-> Or(Get(svc, "canonical_type"), Get(svc, "service_type")),
         rcs |-> Or(Or(Get(svc, "rcs"), OptGet(verification, "confidence_score")),
                    Num(DefaultScore))]))

\* the provenance entry of a result
Provenance(verification, provenance) ==
    Obj(Compact(
        [source |-> Or(Or(OptGet(verification, "verification_method"),
                          OptGet(provenance, "source")), Str("unknown")),
         rcs |-> Or(Or(OptGet(verification, "confidence_score"),
                       OptGet(provenance, "rcs")), Num(DefaultScore)),
         last_verified_at |-> Or(OptGet(verification, "last_verified_at"),
                                 OptGet(provenance, "last_verified_at")),
         verification_method |-> OptGet(verification, "verification_method"),
         verified_by |-> Or(OptGet(verification, "verified_by"),
                            OptGet(provenance, "verified_by"))]))

\* result.details?.key || result.key
Detail(result, key) == Or(OptGet(Get(result, "details"), key), Get(result, key))

\* transformBackendResult(result), result an object whose criteria_met and
\* services, when present, are arrays
TransformBackendResult(result) ==
    LET match == Get(result, "match")
        verification == Get(result, "verification")
        criteria == Or(OptGet(match, "criteria_met"), Arr(<<>>))
        services == OptGet(Get(result, "details"), "services")
    IN  Obj(Compact(
        [id |-> Get(result, "resource_id"),
         name |-> Or(Detail(result, "name"), Str("Unknown Resource")),
         display_name |-> Detail(result, "display_name"),
         description |-> Detail(result, "description"),
         type |-> Or(Or(Get(result, "resource_type"), Get(result, "type")),
                     Str("facility")),
         city |-> Detail(result, "city"),
         state |-> Detail(result, "state"),
         latitude |-> Detail(result, "latitude"),
         longitude |-> Detail(result, "longitude"),
         phone_numbers |-> Or(Detail(result, "phone_numbers"), Arr(<<>>)),
         website |-> Detail(result, "website"),
         email |-> Detail(result, "email"),
         match_score |-> Or(Or(OptGet(match, "score"), Get(result, "match_score")),
                            Num(DefaultScore)),
         match_reasons |-> Arr([i \in 1..Len(criteria.v) |-> MatchReason(criteria.v[i])]),
         unknowns |-> Arr(<<>>),
         provenance |-> Provenance(verification, Get(result, "provenance")),
         services |-> IF services.t = "array"
                      THEN Arr([i \in 1..Len(services.v) |->
                                   ServiceEntry(services.v[i], verification)])
                      ELSE Arr(<<>>),
         distance_km |-> Detail(result, "distance_km"),
         accessibility_score |->
             IF Truthy(OptGet(verification, "data_completeness"))
             THEN OptGet(verification, "data_completeness")
             ELSE Get(result, "accessibility_score"),
         tier |-> Get(result, "tier")]))

\* transformBackendSearchResponse(backendResponse), backendResponse an
\* object; the timestamp is the clock's and is left out
TransformBackendSearchResponse(backendResponse) ==
    LET results == Get(backendResponse, "results")
        applied == TransformBackendFilters(
                       Or(Get(backendResponse, "filters_applied"), Obj(EmptyObject)))
    IN  IF MapThrows(results) THEN Threw("backendResponse.results.map is not a function")
        ELSE IF applied.threw THEN applied
        ELSE Returned(Obj(
               [items |-> IF results.t = "array"
                          THEN Arr([i \in 1..Len(results.v) |->
                                       TransformBackendResult(results.v[i])])
                          ELSE Arr(<<>>),
                total |-> Or(Get(backendResponse, "total"), Num(0)),
                applied_filters |-> applied.value,
                metadata |-> Obj([execution_time_ms |->
                                    Or(Get(backendResponse, "execution_time_ms"), Num(0)),
                                  from_cache |->
                                    Or(Get(backendResponse, "from_cache"), Bool(FALSE))])]))

(***************************************************************************)
(* Backend client (lib/api/backend-client.ts): fetchWithRetry and the      *)
(* three BackendClient methods.                                            *)
(***************************************************************************)
\* DEFAULT_RETRY_OPTIONS
MaxRetries == 3
BackoffMs == 1000
RetryableStatuses == {408, 429, 500, 502, 503, 504}

\* response.ok
ResponseOk(outcome) == outcome.kind = "response" /\ outcome.status \in 200..299

\* a backoff that grows by the base each time
BackoffDelay_Linear(a) == BackoffMs * (a + 1)

\* the delay of the backoff that follows attempt number `a`
BackoffDelay(a) == BackoffMs * (2 ^ a)

\* the condition of fetchWithRetry's for loop
LoopGuard_OffByOne(a) == a < MaxRetries

LoopGuard(a) == a <= MaxRetries

\* the message of the Error that fetchWithRetry builds from a response, or of
\* the one fetch() rejects with
FetchError(outcome) ==
    IF outcome.kind = "network" THEN "fetch failed"
    ELSE "HTTP " \o ToString(outcome.status)

\* the try block throws: fetch() rejected, or the status is not ok and not
\* retryable (the throw of line 62 is inside the try, so the catch gets it)
ThrowsInTry(outcome) ==
    \/ outcome.kind = "network"
    \/ ~ResponseOk(outcome) /\ outcome.status \notin RetryableStatuses

\* the catch block rethrows
CatchRethrows(a) == a = MaxRetries

\* the backoff guard after the try/catch
ShouldWait(a) == a < MaxRetries

BackendMessage(m) ==
    CASE m = "extractFilters" -> "Failed to extract filters from query"
      [] m = "searchResources" -> "Failed to search resources"
      [] OTHER -> "Failed to get resource details"

\* new BackendAPIError(message, undefined, { originalError })
BackendAPIError(m, original) ==
    [name |-> "BackendAPIError", message |-> BackendMessage(m),
     statusCode |-> Undefined, originalError |-> original]

\* a BackendClient method after fetchWithRetry returned `outcome`'s response:
\* response.json() and the method's catch
ClientReturns(m, outcome) ==
    IF outcome.body.t = "notjson"
    THEN [status |-> "threw", error |-> BackendAPIError(m, "SyntaxError: Unexpected token")]
    ELSE [status |-> "returned", value |-> outcome.body]

\* a BackendClient method after fetchWithRetry threw `message`
ClientThrows(m, message) == [status |-> "threw", error |-> BackendAPIError(m, message)]

(***************************************************************************)
(* GET /api/resources/search.                                              *)
(***************************************************************************)
CrisisServiceTypes ==
    "crisis_line,crisis_text,crisis_chat,crisis_mobile,crisis_walk_in,suicide_prevention"

GenericQuery == "mental health support"

\* the policy default of the handler, applied to the transformed params
WithDefaults(params) ==
    IF ~Truthy(Field(params, "query")) /\ ~Truthy(Field(params, "service_types"))
    THEN IF Field(params, "care_phase").t = "string"
            /\ Field(params, "care_phase").v = "immediate_crisis"
         THEN With(params, "service_types", Str(CrisisServiceTypes))
         ELSE With(params, "query", Str(GenericQuery))
    ELSE params

\* new URLSearchParams(params): what goes on the wire
Wire(params) == [k \in DOMAIN params |-> ToStr(params[k])]

\* the required-fields test with the first negation dropped
MissingRequired_LocationSet(filters) ==
    Truthy(Field(filters, "location")) /\ ~Truthy(Field(filters, "keywords"))

\* the handler's required-fields test
MissingRequired(filters) ==
    ~Truthy(Field(filters, "location")) /\ ~Truthy(Field(filters, "keywords"))

\* the handler after BackendClient.searchResources ended with `result`
SearchResponds(result) ==
    IF result.status = "threw"
    THEN Json(IF Truthy(result.error.statusCode) THEN result.error.statusCode.v ELSE 500,
              Put([error |-> Str("Backend search failed"),
                   details |-> Str(result.error.message)],
                  "statusCode", result.error.statusCode))
    ELSE IF result.value.t # "object"
    THEN Json(500, [error |-> Str("Search failed"),
                    details |-> Str("Cannot read properties of " \o result.value.t)])
    ELSE LET out == TransformBackendSearchResponse(result.value)
         IN  IF out.threw
             THEN Json(500, [error |-> Str("Search failed"), details |-> Str(out.error)])
             ELSE Json(200, out.value.v)

\* the variables of a client call that has just been issued
StartCall(m) ==
    /\ method' = m
    /\ spc' = "fetching"
    /\ attempt' = 0
    /\ fetches' = <<>>
    /\ waits' = <<>>
    /\ lastError' = "null"
    /\ cresult' = Pendent

\* the variables of a request answered before any client call
NoCall ==
    /\ method' = "none"
    /\ spc' = "responded"
    /\ attempt' = 0
    /\ fetches' = <<>>
    /\ waits' = <<>>
    /\ lastError' = "null"
    /\ cresult' = Pendent

\* GET without the catch around the transform: a transform error reaches the
\* handler's outer catch
SearchRequest_NoTransformCatch(url) ==
    /\ spc = "idle"
    /\ caller' = "search"
    /\ rid' = ""
    /\ surl' = url
    /\ sfilters' = FromURLParams(url)
    /\ LET filters == FromURLParams(url)
           transformed == TransformFiltersToBackendParams(filters)
       IN  IF MissingRequired(filters)
           THEN /\ sresp' = Json(400, [error |->
                              Str("Either location or keywords is required for search")])
                /\ sparams' = EmptyObject
                /\ NoCall
           ELSE IF transformed.threw
           THEN /\ sresp' = Json(500, [error |-> Str("Search failed"),
                                       details |-> Str(transformed.error)])
                /\ sparams' = EmptyObject
                /\ NoCall
           ELSE /\ sresp' = NoResponse
                /\ sparams' = WithDefaults(transformed.value)
                /\ StartCall("searchResources")
    /\ UNCHANGED <<evars, tvars, pvars>>

\* GET up to its first await: parse, required-fields test, transform, policy
\* default, and the call of BackendClient.searchResources.  The handler keeps
\* nothing between requests, so one request per behaviour covers them all.
SearchRequest(url) ==
    /\ spc = "idle"
    /\ caller' = "search"
    /\ rid' = ""
    /\ surl' = url
    /\ sfilters' = FromURLParams(url)
    /\ LET filters == FromURLParams(url)
           transformed == TransformFiltersToBackendParams(filters)
       IN  IF MissingRequired(filters)
           THEN /\ sresp' = Json(400, [error |->
                              Str("Either location or keywords is required for search")])
                /\ sparams' = EmptyObject
                /\ NoCall
           ELSE IF transformed.threw
           THEN /\ sresp' = Json(500, [error |-> Str("Failed to transform filters"),
                                       details |-> Str(transformed.error),
                                       filters |-> Obj(filters)])
                /\ sparams' = EmptyObject
                /\ NoCall
           ELSE /\ sresp' = NoResponse
                /\ sparams' = WithDefaults(transformed.value)
                /\ StartCall("searchResources")
    /\ UNCHANGED <<evars, tvars, pvars>>

\* a BackendClient method called outside a handler
ClientCall(m) ==
    /\ spc = "idle"
    /\ caller' = "direct"
    /\ rid' = ""
    /\ surl' = <<>>
    /\ sfilters' = EmptyObject
    /\ sparams' = EmptyObject
    /\ sresp' = NoResponse
    /\ StartCall(m)
    /\ UNCHANGED <<evars, tvars, pvars>>

(***************************************************************************)
(* GET /api/resources/[id].                                                *)
(***************************************************************************)
HexDigits == "0123456789abcdef"

\* [0-9a-f] under the i flag
IsHex(c) == \E i \in 1..Len(HexDigits) : SubSeq(HexDigits, i, i) = LowerChar(c)

\* positions of the hyphens of the 8-4-4-4-12 pattern
HyphenAt == {9, 14, 19, 24}

UuidLength == 36

\* the pattern matched at the start of the id only, the $ anchor left out
UuidTest_Unanchored(id) ==
    /\ Len(id) >= UuidLength
    /\ \A i \in 1..UuidLength :
          IF i \in HyphenAt THEN SubSeq(id, i, i) = "-" ELSE IsHex(SubSeq(id, i, i))

\* uuidRegex.test(id)
UuidTest(id) ==
    /\ Len(id) = UuidLength
    /\ \A i \in 1..UuidLength :
          IF i \in HyphenAt THEN SubSeq(id, i, i) = "-" ELSE IsHex(SubSeq(id, i, i))

\* the handler after BackendClient.getResourceById ended with `result`
ResourceResponds(result) ==
    IF result.status = "threw"
    THEN IF result.error.statusCode = Num(404)
         THEN Json(404, [error |-> Str("Resource not found")])
         ELSE Json(IF Truthy(result.error.statusCode)
                   THEN result.error.statusCode.v ELSE 500,
                   [error |-> Str("Failed to fetch resource"),
                    details |-> Str(result.error.message)])
    ELSE IF result.value.t # "object"
    THEN Json(500, [error |-> Str("Failed to fetch resource details"),
                    details |-> Str("Cannot read properties of " \o result.value.t)])
    ELSE Json(200, result.value.v)

\* GET up to its first await: the id format test and the call of
\* BackendClient.getResourceById
ResourceRequest(id) ==
    /\ spc = "idle"
    /\ caller' = "resource"
    /\ rid' = id
    /\ surl' = <<>>
    /\ sfilters' = EmptyObject
    /\ sparams' = EmptyObject
    /\ IF ~UuidTest(id)
       THEN /\ sresp' = Json(400, [error |->
                          Str("Invalid resource ID format (expected UUID)")])
            /\ NoCall
       ELSE /\ sresp' = NoResponse
            /\ StartCall("getResourceById")
    /\ UNCHANGED <<evars, tvars, pvars>>

\* the client call ends with `result`; its caller goes on
EndCall(result) ==
    /\ cresult' = result
    /\ spc' = "responded"
    /\ sresp' = CASE caller = "search" -> SearchResponds(result)
                  [] caller = "resource" -> ResourceResponds(result)
                  [] OTHER -> sresp

\* the fetch() of the current attempt settles: the rest of the loop body of
\* fetchWithRetry up to the backoff sleep, or the end of the call
FetchSettles(outcome) ==
    /\ spc = "fetching"
    /\ fetches' = Append(fetches, outcome)
    /\ IF ResponseOk(outcome)
       THEN /\ EndCall(ClientReturns(method, outcome))
            /\ UNCHANGED <<lastError, attempt, waits>>
       ELSE /\ lastError' = FetchError(outcome)
            /\ IF ThrowsInTry(outcome) /\ CatchRethrows(attempt)
               THEN /\ EndCall(ClientThrows(method, FetchError(outcome)))
                    /\ UNCHANGED <<attempt, waits>>
               ELSE IF ShouldWait(attempt)
               THEN /\ spc' = "waiting"
                    /\ waits' = Append(waits, BackoffDelay(attempt))
                    /\ UNCHANGED <<attempt, cresult, sresp>>
               ELSE IF LoopGuard(attempt + 1)
               THEN /\ spc' = "fetching"
                    /\ attempt' = attempt + 1
                    /\ UNCHANGED <<waits, cresult, sresp>>
               ELSE /\ EndCall(ClientThrows(method, FetchError(outcome)))
                    /\ attempt' = attempt + 1
                    /\ UNCHANGED waits
    /\ UNCHANGED <<caller, rid, surl, sfilters, sparams, method, evars, tvars, pvars>>

\* the backoff sleep ends: attempt++, the loop test, and the next fetch()
BackoffElapses ==
    /\ spc = "waiting"
    /\ attempt' = attempt + 1
    /\ IF LoopGuard(attempt + 1)
       THEN /\ spc' = "fetching"
            /\ UNCHANGED <<cresult, sresp>>
       ELSE EndCall(ClientThrows(method, lastError))
    /\ UNCHANGED <<caller, rid, surl, sfilters, sparams, method, fetches, waits,
                   lastError,
                   evars, tvars, pvars>>

(***************************************************************************)
(* Inputs and specifications of the search side.                           *)
(***************************************************************************)
NotJson == [t |-> "notjson"]

\* one result of a backend search response
SampleResult ==
    Obj([resource_id |-> Str("r-1"),
         match |-> Obj([score |-> Num(80), criteria_met |-> Arr(<<Str("crisis_line")>>)]),
         details |-> Obj([name |-> Str("Denver Crisis Center")]),
         tier |-> Num(1)])

\* bodies of a 2xx backend response
BackendBodies ==
    { Obj(EmptyObject),
      Obj([results |-> Arr(<<SampleResult>>), total |-> Num(1),
           filters_applied |-> Obj([query |-> Str("therapy")])]),
      Null,
      NotJson }

Network == [kind |-> "network"]
Response(status, body) == [kind |-> "response", status |-> status, body |-> body]

\* what a fetch() of the search handler's call settles with
SearchOutcomes ==
    { Network, Response(404, Null), Response(503, Null) }
        \cup { Response(200, b) : b \in BackendBodies }

\* what a fetch() of a bare client call settles with
ClientStatuses == {200, 204, 400, 401, 404, 408, 429, 500, 502, 503, 504}

ClientOutcomes ==
    { Network } \cup { Response(st, Obj(EmptyObject)) : st \in ClientStatuses }

ClientMethods == {"extractFilters", "searchResources", "getResourceById"}

\* the <<key, value>> pairs of one key: none, one or several values
Entries(key, values) == [i \in 1..Len(values) |-> <<key, values[i]>>]

KeywordParams == { <<>>, <<"therapy">>, <<"0">>, <<"[]">> }
LocationParams ==
    { <<>>, <<"Denver">>, <<LocDenverText>>, <<LocNullLatText>>, <<LocHugeLatText>> }
CarePhaseParams == { <<>>, <<"immediate_crisis">> }
ServiceTypeParams ==
    { <<>>, <<"crisis_line">>, <<"detox", "mat">>, <<"[\"crisis_line\"]">> }

SearchURLs ==
    { Entries("keywords", k) \o Entries("location", l) \o Entries("care_phase", c)
        \o Entries("service_types", st) :
        k \in KeywordParams, l \in LocationParams, c \in CarePhaseParams,
        st \in ServiceTypeParams }

SearchInit ==
    /\ apiKeys = [p \in {"openai", "anthropic"} |-> FALSE]
    /\ ExtractIdle
    /\ SearchIdle
    /\ PageIdle
    /\ ReverseIdle
    /\ TransformIdle

SearchNext ==
    \/ \E url \in SearchURLs : SearchRequest(url)
    \/ \E outcome \in SearchOutcomes : FetchSettles(outcome)
    \/ BackoffElapses

SpecSearch == SearchInit /\ [][SearchNext]_vars

ClientNext ==
    \/ \E m \in ClientMethods : ClientCall(m)
    \/ \E outcome \in ClientOutcomes : FetchSettles(outcome)
    \/ BackoffElapses

SpecClient == SearchInit /\ [][ClientNext]_vars

(***************************************************************************)
(* Inputs and specification of the resource detail endpoint.               *)
(***************************************************************************)
LowerUuid == "123e4567-e89b-12d3-a456-426614174000"
UpperUuid == "123E4567-E89B-12D3-A456-426614174ABC"

\* ids that match the UUID pattern
WellFormedIds == { LowerUuid, UpperUuid, "00000000-0000-0000-0000-000000000000" }

\* ids that do not: empty, short, a letter outside a-f, a hyphen moved, one
\* character too many at either end, a trailing line feed, no hyphens
MalformedIds ==
    { "", "42", "123e4567-e89b-12d3-a456-42661417400",
      "123g4567-e89b-12d3-a456-426614174000",
      "123e45678-e89-12d3-a456-426614174000",
      "123e4567-e89b-12d3-a456-4266141740000",
      " 123e4567-e89b-12d3-a456-426614174000",
      "123e4567-e89b-12d3-a456-426614174000\n",
      "123e4567e89b12d3a456426614174000" }

ResourceIds == WellFormedIds \cup MalformedIds

\* what a fetch() of the resource handler's call settles with
ResourceOutcomes ==
    { Network, Response(404, Null), Response(503, Null), Response(500, Null),
      Response(200, Obj([name |-> Str("Denver Crisis Center")])),
      Response(200, Null), Response(200, NotJson) }

ResourceNext ==
    \/ \E id \in ResourceIds : ResourceRequest(id)
    \/ \E outcome \in ResourceOutcomes : FetchSettles(outcome)
    \/ BackoffElapses

SpecResource == SearchInit /\ [][ResourceNext]_vars

(***************************************************************************)
(* transformFiltersToBackendParams as a function of a filter object.       *)
(***************************************************************************)
\* lat and lon of the inputs; "undefined" is a coordinate that is missing
CoordinateValues ==
    { Num(39), Num(-104), Num(0), NaN, PlusInfinity, Str("39"), Null, Undefined }

TransformInputs ==
    { Put(kw, "location",
          Obj([address |-> Str("Denver"),
               coordinates |-> Obj(Put(Put(EmptyObject, "lat", lat), "lon", lon))])) :
        kw \in { EmptyObject, [keywords |-> Str("therapy")] },
        lat \in CoordinateValues, lon \in CoordinateValues }
    \cup { EmptyObject, [keywords |-> Str("therapy")],
           [location |-> Obj([address |-> Str("Denver")])] }

\* transformFiltersToBackendParams(tin) is called
ApplyTransform ==
    /\ tout.status = "none"
    /\ tout' = IF TransformFiltersToBackendParams(tin).threw
               THEN [status |-> "threw",
                     error |-> TransformFiltersToBackendParams(tin).error]
               ELSE [status |-> "returned",
                     value |-> TransformFiltersToBackendParams(tin).value]
    /\ UNCHANGED <<tin, tback, vin, vout, nin, nout, uin, uout, bin, bout, evars, svars, pvars>>

TransformInit ==
    /\ apiKeys = [p \in {"openai", "anthropic"} |-> FALSE]
    /\ ExtractIdle
    /\ SearchIdle
    /\ PageIdle
    /\ ReverseIdle
    /\ ValidateIdle
    /\ NormalizeIdle
    /\ tin \in TransformInputs
    /\ tout = [status |-> "none"]
    /\ tback = [status |-> "none"]
    /\ URLIdle

TransformNext == ApplyTransform

SpecTransform == TransformInit /\ [][TransformNext]_vars

(***************************************************************************)
(* transformFiltersToBackendParams followed by transformBackendSearchResponse *)
(* on a backend response whose filters_applied echoes the params.          *)
(***************************************************************************)
\* the values each field of the mapping table takes; Undefined is a field
\* that is absent
RoundTripValues ==
    [ keywords |-> { Undefined, Str("therapy") },
      location |-> { Undefined,
                     Obj([coordinates |-> Obj([lat |-> Num(39), lon |-> Num(-104)])]),
                     Obj([coordinates |-> Obj([lat |-> Num(0), lon |-> Num(-104)])]) },
      max_distance_km |-> { Undefined, Num(25) },
      service_types |-> { Undefined, Arr(<<Str("crisis_line"), Str("detox")>>) },
      has_crisis_services |-> { Undefined, Bool(TRUE), Bool(FALSE) },
      care_phase |-> { Undefined, Str("immediate_crisis") },
      limit |-> { Undefined, Num(20) } ]

\* filter objects built from fields of the mapping table only
RoundTripInputs ==
    { Compact([ keywords |-> kw, location |-> loc, max_distance_km |-> km,
                service_types |-> st, has_crisis_services |-> hc,
                care_phase |-> cp, limit |-> lim ]) :
        kw \in RoundTripValues.keywords, loc \in RoundTripValues.location,
        km \in RoundTripValues.max_distance_km, st \in RoundTripValues.service_types,
        hc \in RoundTripValues.has_crisis_services, cp \in RoundTripValues.care_phase,
        lim \in RoundTripValues.limit }

\* a backend response that found nothing and echoes `params` as filters_applied
EchoResponse(params) ==
    Obj([results |-> Arr(<<>>), total |-> Num(0), filters_applied |-> Obj(params)])

\* transformBackendSearchResponse is called on the echo of tout; tback is
\* the applied_filters of what it returns
ApplyReverse ==
    /\ tout.status = "returned"
    /\ tback.status = "none"
    /\ tback' = LET out == TransformBackendSearchResponse(EchoResponse(tout.value))
                IN  IF out.threw THEN [status |-> "threw", error |-> out.error]
                    ELSE [status |-> "returned",
                          value |-> out.value.v["applied_filters"].v]
    /\ UNCHANGED <<tin, tout, vin, vout, nin, nout, uin, uout, bin, bout, evars, svars, pvars>>

RoundTripInit ==
    /\ apiKeys = [p \in {"openai", "anthropic"} |-> FALSE]
    /\ ExtractIdle
    /\ SearchIdle
    /\ PageIdle
    /\ ReverseIdle
    /\ ValidateIdle
    /\ NormalizeIdle
    /\ tin \in RoundTripInputs
    /\ tout = [status |-> "none"]
    /\ tback = [status |-> "none"]
    /\ URLIdle

RoundTripNext ==
    \/ ApplyTransform
    \/ ApplyReverse

SpecRoundTrip == RoundTripInit /\ [][RoundTripNext]_vars

(***************************************************************************)
(* validateExtractedFilters as a function of an extraction result and a    *)
(* query, applied twice in a row.                                          *)
(***************************************************************************)
\* longest service_types list given to the validator
MaxListLen == 3

\* the fields of an extraction result's filters other than service_types
OtherFields ==
    { EmptyObject, [keywords |-> "llm terms"], [care_phase |-> "immediate_crisis"],
      [keywords |-> "llm terms", care_phase |-> "immediate_crisis"] }

\* extraction results: service_types absent, or a list over TypeVocab; with
\* and without keywords of the provider's own, with and without a care phase
ValidatorResponses ==
    { [originalQuery |-> "hello", filters |-> f, confidence |-> 90,
       explanation |-> "Extracted filters from: \"hello\"",
       metadata |-> [provider |-> "openai"]] :
        f \in { kw : kw \in OtherFields }
            \cup { With(kw, "service_types", [t |-> "array", v |-> l]) :
                     kw \in OtherFields,
                     l \in SeqsUpTo(TypeVocab, MaxListLen) } }

\* the queries POST passes to the validator: never blank
ValidatorQueries == { "hello", "need a crisis hotline" }

\* validateExtractedFilters(previous result, query) is called
ApplyValidate ==
    /\ Len(vout) < 2
    /\ vout' = Append(vout,
                  ValidateExtractedFilters(
                      IF vout = <<>> THEN vin.response ELSE vout[Len(vout)].value,
                      vin.query))
    /\ UNCHANGED <<vin, tin, tout, tback, nin, nout, uin, uout, bin, bout, evars, svars, pvars>>

ValidateInit ==
    /\ apiKeys = [p \in {"openai", "anthropic"} |-> FALSE]
    /\ ExtractIdle
    /\ SearchIdle
    /\ PageIdle
    /\ ReverseIdle
    /\ NormalizeIdle
    /\ tin = EmptyObject
    /\ tout = [status |-> "none"]
    /\ tback = [status |-> "none"]
    /\ URLIdle
    /\ vin \in [response : ValidatorResponses, query : ValidatorQueries]
    /\ vout = <<>>

ValidateNext == ApplyValidate

SpecValidate == ValidateInit /\ [][ValidateNext]_vars

(***************************************************************************)
(* createBasicFilters as a function of a query, followed by the validator  *)
(* as in POST's catch.                                                     *)
(***************************************************************************)
\* most words in a query given to the normalizer
MaxWords == 2

\* phase terms of the four tiers in either case, a term of no tier, and a
\* term with white space around it
QueryWords ==
    { "EMERGENCY", "Crisis", "suicide", "urgent", "acute", "recovery", "wellness",
      "hello", " now " }

RECURSIVE JoinWords(_)
\* the words of a query with one space between them
JoinWords(words) ==
    IF words = <<>> THEN ""
    ELSE IF Len(words) = 1 THEN words[1]
    ELSE words[1] \o " " \o JoinWords(Tail(words))

NormalizerQueries == { JoinWords(ws) : ws \in SeqsUpTo(QueryWords, MaxWords) }

\* createBasicFilters(nin) is called, then validateExtractedFilters on it
ApplyNormalize ==
    /\ nout.status = "none"
    /\ nout' = [status |-> "done",
                basic |-> CreateBasicFilters(nin),
                validated |-> ValidateExtractedFilters(CreateBasicFilters(nin), nin)]
    /\ UNCHANGED <<nin, tin, tout, tback, vin, vout, uin, uout, bin, bout, evars, svars, pvars>>

NormalizeInit ==
    /\ apiKeys = [p \in {"openai", "anthropic"} |-> FALSE]
    /\ ExtractIdle
    /\ SearchIdle
    /\ PageIdle
    /\ ReverseIdle
    /\ ValidateIdle
    /\ tin = EmptyObject
    /\ tout = [status |-> "none"]
    /\ tback = [status |-> "none"]
    /\ URLIdle
    /\ nin \in NormalizerQueries
    /\ nout = [status |-> "none"]

NormalizeNext == ApplyNormalize

SpecNormalize == NormalizeInit /\ [][NormalizeNext]_vars

(***************************************************************************)
(* Properties of the extraction endpoint.                                  *)
(***************************************************************************)
ValidQuery(body) == Has(body, "query") /\ Trim(body["query"]) # ""

FailureKinds == {"network_error", "empty_content", "malformed_json"}

Served == epc = "responded" /\ ValidQuery(ebody)

C1_ResponseOK ==
    Served =>
        /\ eresp.status = 200
        /\ eresp.body.metadata.provider
              \in {"fallback"} \cup {p \in {"openai", "anthropic"} : apiKeys[p]}
        /\ eresp.body.originalQuery = ebody["query"]

\* a step of a request that awaits a provider answers the request or moves
\* on to the next configured provider, of which there are at most two
C1_Progress ==
    epc = "await_provider" =>
        \/ epc' = "responded"
        \/ epc' = "await_provider" /\ pidx' = pidx + 1 /\ pidx' <= Len(providers)
                                   /\ Len(providers) <= 2

\* C1 (fallback completeness): every request with a non-empty query, under
\* every key configuration and every provider outcome, is answered after at
\* most two provider calls, with status 200 and a result whose
\* metadata.provider is a configured provider or "fallback"; no provider
\* failure reaches the caller as an error.
C1_FallbackCompleteness == []C1_ResponseOK /\ [][C1_Progress]_vars

\* both providers were tried, failed in different ways, and the caller got
\* the keyword tier with status 200
C1_Witness ==
    /\ Served
    /\ Len(calls) = 2
    /\ calls[1].outcome = "network_error"
    /\ calls[2].outcome = "malformed_json"
    /\ eresp.status = 200
    /\ eresp.body.metadata.provider = "fallback"

\* C2 (provider ordering): providers are attempted in the order OpenAI,
\* Anthropic; an unconfigured provider is never invoked; Anthropic is invoked
\* only if OpenAI is unconfigured or has failed in this request; and once a
\* provider succeeds its result is the one returned, under its name, and no
\* later provider is invoked.
C2_ProviderOrdering ==
    /\ \A i \in 1..Len(calls) :
          /\ apiKeys[calls[i].provider]
          /\ \A j \in 1..(i - 1) :
                calls[j].provider = "openai" /\ calls[i].provider = "anthropic"
          /\ calls[i].provider = "anthropic" =>
                \/ ~apiKeys["openai"]
                \/ i = 2 /\ calls[1].provider = "openai"
                         /\ calls[1].outcome \in FailureKinds
          /\ calls[i].outcome = "success" =>
                /\ i = Len(calls)
                /\ epc = "responded"
                /\ eresp.status = 200
                /\ eresp.body.metadata.provider = calls[i].provider

\* a provider answered and validation of its answer did not throw
Accepted(i) == calls[i].outcome = "success" /\ normalized = 0

\* every configured provider was tried and failed: its adapter threw, or its
\* answer was refused by the validator
AllConfiguredFailed ==
    \A p \in {"openai", "anthropic"} :
        apiKeys[p] => \E i \in 1..Len(calls) :
                          calls[i].provider = p /\ calls[i].outcome # "pending"
                                                /\ ~Accepted(i)

\* C3 (last-resort tier): if every configured provider fails, or none is
\* configured, the result is the keyword normalizer's, with confidence 0.3 and
\* metadata.provider "fallback"; and the tier is used only in that case.
C3_LastResortTier ==
    Served =>
        /\ AllConfiguredFailed =>
              /\ eresp = Json(200, CreateBasicFilters(ebody["query"]))
              /\ eresp.body.confidence = FallbackConfidence
              /\ eresp.body.metadata.provider = "fallback"
        /\ (eresp.body.metadata.provider = "fallback" \/ normalized > 0) =>
              AllConfiguredFailed

\* C4 (canonical vocabulary): in every 200 response each element of
\* filters.service_types, when present, is a member of VALID_SERVICE_TYPES.
C4_CanonicalVocabulary ==
    (Served /\ eresp.status = 200 /\ Has(eresp.body.filters, "service_types")) =>
        /\ eresp.body.filters["service_types"].t = "array"
        /\ \A i \in 1..Len(eresp.body.filters["service_types"].v) :
              eresp.body.filters["service_types"].v[i] \in VALID_SERVICE_TYPES

(***************************************************************************)
(* Properties of the backend client.                                       *)
(***************************************************************************)
\* the fetch() number i of the current call failed in a way the client
\* retries: a network error or a retryable status
RetryableFailure(i) ==
    \/ fetches[i].kind = "network"
    \/ fetches[i].status \in {408, 429, 500, 502, 503, 504}

\* the current call has ended
CallEnded == spc = "responded" /\ method # "none"

\* C5 (retry bound): a client call whose every attempt fails with a network
\* error or a status in {408, 429, 500, 502, 503, 504} performs exactly 4
\* attempts and then raises; no call performs more than 4 attempts; and an
\* attempt answered with a 2xx status is the last attempt of its call.
C5_RetryBound ==
    /\ Len(fetches) <= 4
    /\ (CallEnded /\ \A i \in 1..Len(fetches) : RetryableFailure(i)) =>
          /\ Len(fetches) = 4
          /\ cresult.status = "threw"
    /\ \A i \in 1..Len(fetches) :
          ResponseOk(fetches[i]) => i = Len(fetches) /\ spc = "responded"

\* a call against an endpoint that always answers 503 has ended: four
\* attempts, three backoff waits, and an error raised
C5_Witness ==
    /\ CallEnded
    /\ Len(fetches) = 4
    /\ \A i \in 1..4 : fetches[i] = Response(503, Obj(EmptyObject))
    /\ Len(waits) = 3
    /\ cresult.status = "threw"

\* the current call was raised out of after the backend's last answer, which
\* had a status outside 2xx
FailedOnStatus ==
    /\ CallEnded
    /\ cresult.status = "threw"
    /\ Len(fetches) >= 1
    /\ fetches[Len(fetches)].kind = "response"
    /\ ~ResponseOk(fetches[Len(fetches)])

\* C6 (status code preserved): when a client call fails because the backend
\* answered with a non-2xx status s, the BackendAPIError raised has
\* statusCode = s and the search handler responds with status s.
C6_StatusPreserved ==
    FailedOnStatus =>
        /\ cresult.error.statusCode = Num(fetches[Len(fetches)].status)
        /\ caller = "search" => sresp.status = fetches[Len(fetches)].status

\* C7 (non-retryable statuses fail immediately): when the first attempt of a
\* client call is answered with a status outside 2xx and outside
\* {408, 429, 500, 502, 503, 504}, the call raises after that one attempt,
\* with no backoff wait and no second request.
C7_NonRetryableFailsImmediately ==
    (/\ Len(fetches) >= 1
     /\ fetches[1].kind = "response"
     /\ ~ResponseOk(fetches[1])
     /\ ~RetryableFailure(1)) =>
        /\ Len(fetches) = 1
        /\ waits = <<>>
        /\ spc = "responded"
        /\ cresult.status = "threw"

(***************************************************************************)
(* Properties of transformFiltersToBackendParams.                          *)
(***************************************************************************)
\* x is a number other than NaN and the infinities
FiniteNumber(x) == x.t = "number" /\ x.k = "finite"

\* location.coordinates of the filters that were transformed
InputCoordinates == OptGet(Field(tin, "location"), "coordinates")

\* C8 (coordinate guard): when location.coordinates is present,
\* transformFiltersToBackendParams raises and emits no params if lat or lon
\* is not a finite number, and yields params.location = "<lat>,<lon>" if both
\* are; "NaN" never appears in params.location.
C8_CoordinateGuard ==
    (tout.status # "none" /\ InputCoordinates.t = "object") =>
        /\ IF FiniteNumber(Get(InputCoordinates, "lat"))
              /\ FiniteNumber(Get(InputCoordinates, "lon"))
           THEN /\ tout.status = "returned"
                /\ Field(tout.value, "location") =
                      Str(ToString(Get(InputCoordinates, "lat").v) \o ","
                          \o ToString(Get(InputCoordinates, "lon").v))
           ELSE tout.status = "threw"
        /\ (tout.status = "returned" /\ Has(tout.value, "location")) =>
              ~Includes(ToStr(tout.value["location"]), "NaN")

(***************************************************************************)
(* Properties of GET /api/resources/search.                                *)
(***************************************************************************)
\* the handler called BackendClient.searchResources for the current request
Dispatched == caller = "search" /\ method = "searchResources"

\* the wire request carries a non-empty value for `key`
Carries(key) == Has(Wire(sparams), key) /\ Wire(sparams)[key] # ""

\* C9 (query or service_types): every request the search handler dispatches
\* to the backend client carries a non-empty query or a non-empty
\* service_types; when the transformed params have neither, service_types is
\* the crisis-service codes if care_phase is immediate_crisis and query is
\* the generic fallback string otherwise; when either was present the params
\* are dispatched unmodified.
C9_QueryOrServiceTypes ==
    Dispatched =>
        LET transformed == TransformFiltersToBackendParams(sfilters).value
        IN  /\ Carries("query") \/ Carries("service_types")
            /\ IF Has(transformed, "query") \/ Has(transformed, "service_types")
               THEN sparams = transformed
               ELSE IF Field(transformed, "care_phase") = Str("immediate_crisis")
               THEN sparams = With(transformed, "service_types",
                        Str("crisis_line,crisis_text,crisis_chat,crisis_mobile,"
                            \o "crisis_walk_in,suicide_prevention"))
               ELSE sparams = With(transformed, "query", Str("mental health support"))

\* the parsed filters of the current search request have neither a location
\* nor keywords
NeitherLocationNorKeywords ==
    /\ caller = "search"
    /\ spc # "idle"
    /\ ~Truthy(Field(sfilters, "location"))
    /\ ~Truthy(Field(sfilters, "keywords"))

\* C10 (required fields): a search request whose parsed filters have neither
\* location nor keywords is answered with 400 and the message 'Either
\* location or keywords is required for search', and the backend client is
\* not invoked for it.
C10_RequiredFields ==
    NeitherLocationNorKeywords =>
        /\ spc = "responded"
        /\ sresp = Json(400, [error |->
                      Str("Either location or keywords is required for search")])
        /\ method = "none"
        /\ fetches = <<>>

\* a request with a care phase and service types but no location and no
\* keywords was answered 400
C10_Witness ==
    /\ NeitherLocationNorKeywords
    /\ Has(sfilters, "care_phase")
    /\ Has(sfilters, "service_types")
    /\ sresp.status = 400
    /\ method = "none"

\* C11 (exactly one of location or keywords): the filters of every search
\* the handler dispatches to the backend client hold exactly one of location
\* and keywords; a request with both, or with neither, is not dispatched.
C11_ExactlyOneOfLocationOrKeywords ==
    Dispatched => (Has(sfilters, "location") # Has(sfilters, "keywords"))

\* the body of the current extraction request has no query, or one made of
\* white space only (the empty query included)
BlankQuery ==
    /\ epc # "idle"
    /\ Has(ebody, "query") =>
          \A i \in 1..Len(ebody["query"]) : IsSpace(SubSeq(ebody["query"], i, i))

\* C12 (empty query): POST /extract-filters with a query that is missing,
\* empty or made of white space only is answered 400, and neither a provider
\* nor the keyword normalizer is invoked for it.
C12_EmptyQueryRejected ==
    BlankQuery =>
        /\ epc = "responded"
        /\ eresp = Json(400, [error |-> "Query is required"])
        /\ calls = <<>>
        /\ normalized = 0

\* a query of white space only was refused while both providers were
\* configured
C12_Witness ==
    /\ BlankQuery
    /\ Has(ebody, "query")
    /\ Len(ebody["query"]) >= 2
    /\ apiKeys["openai"] /\ apiKeys["anthropic"]
    /\ eresp.status = 400
    /\ calls = <<>>

(***************************************************************************)
(* Properties of GET /api/resources/[id].                                  *)
(***************************************************************************)
\* the handler is serving, or has served, a resource request
ResourceServed == caller = "resource" /\ spc # "idle"

\* C13 (id format): for every id that does not match the UUID pattern
\* (8-4-4-4-12 hex, either case) the resource handler responds 400 and the
\* backend client is not invoked; the client is invoked only for ids that
\* match.
C13_IdFormat ==
    ResourceServed =>
        /\ rid \in MalformedIds =>
              /\ spc = "responded"
              /\ sresp.status = 400
              /\ method = "none"
              /\ fetches = <<>>
        /\ method # "none" => rid \in WellFormedIds

\* an id one character longer than a UUID was refused
C13_Witness ==
    /\ ResourceServed
    /\ Len(rid) = 37
    /\ sresp.status = 400
    /\ method = "none"

\* C14 (backend errors of the resource endpoint): when the backend answers
\* 404 for a well-formed id the handler responds 404 'Resource not found';
\* any other backend error status is passed through as the response status.
C14_BackendStatusPassedThrough ==
    (ResourceServed /\ FailedOnStatus) =>
        /\ sresp.status = fetches[Len(fetches)].status
        /\ fetches[Len(fetches)].status = 404 =>
              sresp.body = [error |-> Str("Resource not found")]

(***************************************************************************)
(* Properties of validateExtractedFilters.                                 *)
(***************************************************************************)
\* the service_types list given to the validator, <<>> when there is none
InputTypes ==
    IF Has(vin.response.filters, "service_types")
    THEN vin.response.filters["service_types"].v
    ELSE <<>>

\* the filters the first pass of the validator returned
ValidatedFilters == vout[1].value.filters

\* a canonical code or an alias key
KnownType(type) ==
    type \in VALID_SERVICE_TYPES \/ type \in DOMAIN SERVICE_TYPE_ALIASES

\* the canonical code a known type stands for
CanonicalOf(type) ==
    IF type \in VALID_SERVICE_TYPES THEN type ELSE SERVICE_TYPE_ALIASES[type]

\* C15 (validator idempotence): validate(validate(r, q), q) equals
\* validate(r, q) for every extraction result r whose service_types is absent
\* or a list over canonical codes, alias keys and unknown strings, and every
\* query q; every alias target is itself a canonical code.
C15_ValidatorIdempotence ==
    /\ \A alias \in DOMAIN SERVICE_TYPE_ALIASES :
          SERVICE_TYPE_ALIASES[alias] \in VALID_SERVICE_TYPES
    /\ Len(vout) = 2 => vout[2] = vout[1]

\* C16 (alias correctness): the validated list holds exactly the canonical
\* codes of the input, the targets of its known aliases, and nothing else,
\* each once.
C16_AliasCorrectness ==
    (Len(vout) >= 1 /\ Has(vin.response.filters, "service_types")) =>
        LET out == ValidatedFilters["service_types"].v
        IN  /\ { out[i] : i \in 1..Len(out) } =
                  { CanonicalOf(InputTypes[i]) :
                      i \in { j \in 1..Len(InputTypes) : KnownType(InputTypes[j]) } }
            /\ \A i, j \in 1..Len(out) : out[i] = out[j] => i = j

\* C17 (empty after correction preserves the text): when service_types was
\* extracted and none of its elements is canonical or an alias (the empty
\* list included), the validated service_types is empty and keywords is the
\* original query, whatever keywords the provider had extracted.
C17_EmptyPreservesText ==
    (/\ Len(vout) >= 1
     /\ Has(vin.response.filters, "service_types")
     /\ \A i \in 1..Len(InputTypes) : ~KnownType(InputTypes[i])) =>
        /\ ValidatedFilters["service_types"].v = <<>>
        /\ Has(ValidatedFilters, "keywords")
        /\ ValidatedFilters["keywords"] = vin.query

(***************************************************************************)
(* Properties of createBasicFilters.                                       *)
(***************************************************************************)
\* C18 (keyword-fallback totality): for every query q the keyword
\* normalizer's result has filters.keywords = q verbatim and
\* originalQuery = q, whatever else was extracted, and the same is true of
\* the result once it has passed through the validator.
C18_KeywordTotality ==
    nout.status = "done" =>
        /\ nout.basic.filters["keywords"] = nin
        /\ nout.basic.originalQuery = nin
        /\ ~nout.validated.threw
        /\ nout.validated.value.filters["keywords"] = nin
        /\ nout.validated.value.originalQuery = nin

\* a query with capitals and white space around it, from which a care phase
\* was extracted, kept its text
C18_Witness ==
    /\ nout.status = "done"
    /\ ToLowerCase(nin) # nin
    /\ Trim(nin) # nin
    /\ Has(nout.basic.filters, "care_phase")
    /\ nout.validated.value.filters["keywords"] = nin

\* the query holds `term`, in either case
ContainsTerm(term) == Includes(ToLowerCase(nin), term)

\* the terms of the care phases, in their order of priority
PhaseTerms ==
    << {"emergency", "suicide", "immediate", "crisis"},
       {"acute", "urgent", "recent"},
       {"recovery", "rehabilitation", "ongoing"},
       {"maintenance", "preventive", "wellness"} >>

PhaseNames == <<"immediate_crisis", "acute_support", "recovery_support", "maintenance">>

\* the phases of which the query holds a term
MatchingPhases == { i \in 1..4 : \E term \in PhaseTerms[i] : ContainsTerm(term) }

\* C19 (crisis terms dominate): a query holding 'emergency' or 'crisis', in
\* either case, yields care_phase immediate_crisis, has_crisis_services true
\* and urgentAccessOnly true, whatever lower phase terms it also holds;
\* care_phase is the first matching phase in the order immediate_crisis,
\* acute_support, recovery_support, maintenance, and unset when none matches.
C19_CrisisTermsDominate ==
    nout.status = "done" =>
        LET filters == nout.basic.filters
        IN  /\ (ContainsTerm("emergency") \/ ContainsTerm("crisis")) =>
                  /\ Has(filters, "care_phase")
                  /\ filters["care_phase"] = "immediate_crisis"
                  /\ Has(filters, "has_crisis_services")
                  /\ filters["has_crisis_services"] = TRUE
                  /\ filters["urgentAccessOnly"] = TRUE
            /\ IF MatchingPhases = {}
               THEN ~Has(filters, "care_phase")
               ELSE /\ Has(filters, "care_phase")
                    /\ filters["care_phase"] =
                          PhaseNames[CHOOSE i \in MatchingPhases :
                                         \A j \in MatchingPhases : i <= j]

\* a query with an acute term before a crisis term in capitals was put in
\* the crisis phase
C19_Witness ==
    /\ nout.status = "done"
    /\ nin = "urgent EMERGENCY"
    /\ nout.basic.filters["care_phase"] = "immediate_crisis"
    /\ nout.basic.filters["urgentAccessOnly"] = TRUE

(***************************************************************************)
(* Properties of the two transforms taken together.                        *)
(***************************************************************************)
\* the value the reverse transform reconstructed for `field` of the filters
Reconstructed(field) ==
    IF field = "location"
    THEN OptGet(Field(tback.value, "location"), "coordinates")
    ELSE Field(tback.value, field)

\* the value `field` had in the filters that were transformed
Original(field) ==
    IF field = "location" THEN Get(tin["location"], "coordinates") ELSE tin[field]

\* C20 (transform round trip): for filters built from fields of the mapping
\* table only, the reverse transform of a backend response whose
\* filters_applied echoes transformFiltersToBackendParams(filters)
\* reconstructs, for every field present in the filters, a value equal to the
\* original (coordinates with a 0, comma-joined lists, stringified booleans
\* and numbers included).
C20_TransformRoundTrip ==
    tback.status # "none" =>
        /\ tback.status = "returned"
        /\ \A field \in DOMAIN tin : Reconstructed(field) = Original(field)


(***************************************************************************)
(* FilterUtils.toURLParams (types/search.ts), and the path a filter object *)
(* takes from the page to the backend params: toURLParams, fromURLParams,  *)
(* transformFiltersToBackendParams.                                        *)
(***************************************************************************)
\* JSON.stringify of the objects of the model, which are values of JsonTexts
JsonStringify(x) == CHOOSE text \in DOMAIN JsonTexts : JsonTexts[text] = x

\* the order Object.entries yields the fields of the filter objects in
EntryOrder ==
    <<"keywords", "location", "max_distance_km", "service_types", "insurance",
      "urgentAccessOnly">>

\* the pairs toURLParams writes for one entry
EntryPairs(key, value) ==
    IF value.t \in {"undefined", "null"} THEN <<>>
    ELSE IF value.t = "array"
    THEN [i \in 1..Len(value.v) |-> <<key, ToStr(value.v[i])>>]
    ELSE IF TypeOf(value) = "object" THEN <<<<key, JsonStringify(value)>>>>
    ELSE <<<<key, ToStr(value)>>>>

RECURSIVE PairsFrom(_, _)
PairsFrom(filters, i) ==
    IF i > Len(EntryOrder) THEN <<>>
    ELSE EntryPairs(EntryOrder[i], Field(filters, EntryOrder[i]))
         \o PairsFrom(filters, i + 1)

\* FilterUtils.toURLParams(filters)
ToURLParams(filters) == PairsFrom(filters, 1)

\* longest array of a filter object
MaxArrayLen == 3

\* filter objects of the page: the panel's insurance select stores a
\* one-element array, extraction stores service_types of any length
URLInputs ==
    { Compact([ keywords |-> kw, location |-> loc, max_distance_km |-> km,
                service_types |-> st, insurance |-> ins, urgentAccessOnly |-> ua ]) :
        kw \in { Undefined, Str("therapy") },
        loc \in { Undefined, Location("Denver", Num(39), Num(-104)) },
        km \in { Undefined, Num(25) },
        st \in { Undefined }
               \cup { Arr(l) : l \in SeqsUpTo({ Str("crisis_line"), Str("detox") },
                                              MaxArrayLen) },
        ins \in { Undefined, Arr(<<Str("medicaid")>>),
                  Arr(<<Str("medicaid"), Str("medicare")>>) },
        ua \in { Undefined, Bool(TRUE) } }

\* the page serialises uin, the search handler parses the URL and transforms
\* the parsed filters
ApplyURLRoundTrip ==
    /\ uout.status = "none"
    /\ uout' = [status |-> "done",
                url |-> ToURLParams(uin),
                parsed |-> FromURLParams(ToURLParams(uin)),
                transformed |->
                    TransformFiltersToBackendParams(FromURLParams(ToURLParams(uin)))]
    /\ UNCHANGED <<uin, tin, tout, tback, vin, vout, nin, nout, bin, bout, evars, svars, pvars>>

URLInit ==
    /\ apiKeys = [p \in {"openai", "anthropic"} |-> FALSE]
    /\ ExtractIdle
    /\ SearchIdle
    /\ PageIdle
    /\ ReverseIdle
    /\ ValidateIdle
    /\ NormalizeIdle
    /\ tin = EmptyObject
    /\ tout = [status |-> "none"]
    /\ tback = [status |-> "none"]
    /\ uin \in URLInputs
    /\ uout = [status |-> "none"]

URLNext == ApplyURLRoundTrip

SpecURL == URLInit /\ [][URLNext]_vars

\* the array-valued fields of uin that have one element or more
ArrayFields == { k \in DOMAIN uin : uin[k].t = "array" /\ Len(uin[k].v) >= 1 }

\* C21 (URL serialization of arrays): every array-valued field of f with one
\* element or more is, in fromURLParams(toURLParams(f)), an array with the
\* same elements, and the search handler's transform comma-joins it.
C21_ArraysSurviveURL ==
    uout.status = "done" =>
        /\ \A k \in ArrayFields :
              /\ k \in DOMAIN uout.parsed
              /\ uout.parsed[k].t = "array"
              /\ uout.parsed[k] = uin[k]
        /\ ArrayFields # {} => ~uout.transformed.threw


\* the transform raises for the parsed filters of the current search request
TransformRaised ==
    /\ caller = "search"
    /\ spc # "idle"
    /\ ~MissingRequired(sfilters)
    /\ TransformFiltersToBackendParams(sfilters).threw

\* C22 (transform errors fail fast): whenever transformFiltersToBackendParams
\* raises for a search request, the handler responds 500 with the error's
\* message as details and the parsed filters in the body, and the backend
\* client is not invoked for that request.
C22_TransformErrorsFailFast ==
    TransformRaised =>
        /\ spc = "responded"
        /\ sresp = Json(500, [error |-> Str("Failed to transform filters"),
                              details |->
                                  Str(TransformFiltersToBackendParams(sfilters).error),
                              filters |-> Obj(sfilters)])
        /\ method = "none"
        /\ fetches = <<>>

\* a request whose location has a null latitude was answered 500 with the
\* filters in the body, and one whose service_types is a string likewise
C22_Witness ==
    /\ TransformRaised
    /\ sresp.status = 500
    /\ Has(sresp.body, "filters")
    /\ Has(sfilters, "location")
    /\ OptGet(Get(sfilters["location"], "coordinates"), "lat") = Null


\* C23 (nothing extracted preserves the text): when the extraction result
\* has no service_types field and the query is non-empty, the validated
\* filters have keywords equal to the query; a validated result for a
\* non-empty query has keywords or a non-empty service_types.
C23_AbsentTypesPreserveText ==
    (Len(vout) >= 1 /\ vin.query # "") =>
        /\ ~Has(vin.response.filters, "service_types") =>
              /\ Has(ValidatedFilters, "keywords")
              /\ ValidatedFilters["keywords"] = vin.query
        /\ \/ Has(ValidatedFilters, "keywords")
           \/ /\ Has(ValidatedFilters, "service_types")
              /\ Len(ValidatedFilters["service_types"].v) > 0


\* the fields of filters the validator may write
ValidatorWrites == { "service_types", "keywords" }

\* filters f and g have field k alike: absent in both, or equal
SameField(f, g, k) == (Has(f, k) <=> Has(g, k)) /\ (Has(f, k) => f[k] = g[k])

\* C24 (validator frame): validate changes only filters.service_types, and
\* filters.keywords when the corrected list is empty; every other filter
\* field and explanation, confidence, originalQuery and metadata are the same
\* before and after, and when the corrected list is non-empty, or
\* service_types is absent, keywords is left as it was.
C24_ValidatorFrame ==
    Len(vout) >= 1 =>
        LET before == vin.response
            after == vout[1].value
        IN  /\ ~vout[1].threw
            /\ DOMAIN after = DOMAIN before
            /\ \A field \in DOMAIN before \ { "filters" } : after[field] = before[field]
            /\ \A k \in (DOMAIN before.filters \cup DOMAIN after.filters)
                          \ ValidatorWrites :
                  SameField(before.filters, after.filters, k)
            /\ Has(after.filters, "service_types") <=> Has(before.filters, "service_types")
            /\ \/ /\ Has(after.filters, "service_types")
                  /\ Len(after.filters["service_types"].v) = 0
               \/ SameField(before.filters, after.filters, "keywords")

\* a result with a care phase, keywords of the provider's own and an alias
\* was validated: the alias was replaced, the rest is as it was
C24_Witness ==
    /\ Len(vout) >= 1
    /\ vin.response.filters =
           [keywords |-> "llm terms", care_phase |-> "immediate_crisis",
            service_types |-> [t |-> "array", v |-> <<"hotline">>]]
    /\ ValidatedFilters =
           [keywords |-> "llm terms", care_phase |-> "immediate_crisis",
            service_types |-> [t |-> "array", v |-> <<"crisis_line">>]]


(***************************************************************************)
(* transformFiltersToBackendParams on filter objects with numeric fields   *)
(* (zero and out-of-range values included), boolean flags of either value, *)
(* and fields that have no backend name.                                   *)
(***************************************************************************)
\* the fields of CanonicalSearchFilters the transform has no line for
UnmappedFields ==
    [travel_mode |-> Str("transit"), region |-> Str("boulder"),
     sort_by |-> Str("distance"), max_transit_time_min |-> Num(30),
     open_now |-> Bool(TRUE)]

MappingInputs ==
    { Compact([ keywords |-> Str("therapy"), max_distance_km |-> km, min_rcs |-> rcs,
                limit |-> lim, offset |-> off, walk_ins_accepted |-> wi,
                verified_only |-> vo ]) @@ extra :
        km \in { Undefined, Num(0), Num(25), Num(-5) },
        rcs \in { Undefined, Num(0), Num(1), Num(2) },
        lim \in { Undefined, Num(0), Num(20) },
        off \in { Undefined, Num(0), Num(40) },
        wi \in { Undefined, Bool(TRUE), Bool(FALSE) },
        vo \in { Undefined, Bool(FALSE) },
        extra \in { EmptyObject, UnmappedFields } }

MappingInit ==
    /\ apiKeys = [p \in {"openai", "anthropic"} |-> FALSE]
    /\ ExtractIdle
    /\ SearchIdle
    /\ PageIdle
    /\ ReverseIdle
    /\ ValidateIdle
    /\ NormalizeIdle
    /\ tin \in MappingInputs
    /\ tout = [status |-> "none"]
    /\ tback = [status |-> "none"]
    /\ URLIdle

MappingNext == ApplyTransform

SpecMapping == MappingInit /\ [][MappingNext]_vars

\* the backend names of the mapping table
BackendNames ==
    { "query", "location", "radius_km", "service_types", "insurance_types",
      "languages", "age_groups", "has_crisis_services", "walk_ins_accepted",
      "referral_required", "gender_specific", "lgbtq_affirming",
      "wheelchair_accessible", "telehealth_available", "urgent_access_only",
      "accepting_new_patients", "care_phase", "verified_only", "min_confidence",
      "limit", "offset" }

\* C25 (only mapped names are forwarded): the keys of the map
\* transformFiltersToBackendParams returns are backend names of the mapping
\* table; travel_mode, region, sort_by, max_transit_time_min and open_now of
\* the input are not among them.
C25_OnlyMappedNames ==
    tout.status = "returned" =>
        /\ DOMAIN tout.value \subseteq BackendNames
        /\ DOMAIN tout.value \cap DOMAIN UnmappedFields = {}

\* filters with all five unmapped fields and a limit were transformed, and
\* the limit was forwarded
C25_Witness ==
    /\ tout.status = "returned"
    /\ DOMAIN UnmappedFields \subseteq DOMAIN tin
    /\ Has(tout.value, "limit")
    /\ Has(tout.value, "query")

\* the numeric fields of the mapping table and their backend names
NumericNames ==
    [max_distance_km |-> "radius_km", min_rcs |-> "min_confidence",
     limit |-> "limit", offset |-> "offset"]

\* the boolean flags of the inputs; their backend names are the same
FlagNames == { "walk_ins_accepted", "verified_only" }

\* C26 (numeric and boolean pass-through): each of max_distance_km, min_rcs,
\* limit and offset that is present, 0 and out-of-range values included, is
\* in the params under its backend name as its decimal string; each flag that
\* is present is in the params as "true" or "false"; a field that is absent
\* is not in the params.
C26_NumericAndBooleanPassThrough ==
    tout.status = "returned" =>
        /\ \A from \in DOMAIN NumericNames :
              IF Has(tin, from)
              THEN /\ Has(tout.value, NumericNames[from])
                   /\ tout.value[NumericNames[from]] = Str(ToStr(tin[from]))
              ELSE ~Has(tout.value, NumericNames[from])
        /\ \A flag \in FlagNames :
              IF Has(tin, flag)
              THEN /\ Has(tout.value, flag)
                   /\ tout.value[flag] = Str(IF tin[flag].v THEN "true" ELSE "false")
              ELSE ~Has(tout.value, flag)


(***************************************************************************)
(* transformBackendSearchResponse on backend responses with optional parts *)
(* missing.                                                                *)
(***************************************************************************)
\* match.score values of the backend, in hundredths
BackendScores == { 0, 87, 100 }

\* results of the backend: match, verification and details each present or
\* missing, match with and without a score
BackendResults ==
    { Obj(Compact([resource_id |-> Str("r1"), match |-> m, verification |-> v,
                   details |-> d])) :
        m \in { Undefined, Obj([criteria_met |-> Arr(<<Str("detox")>>)]) }
              \cup { Obj([score |-> Num(s)]) : s \in BackendScores },
        v \in { Undefined, Obj([verification_method |-> Str("manual")]) },
        d \in { Undefined, Obj([name |-> Str("Center")]) } }

\* backend responses: results, total and filters_applied each present or
\* missing
PartialResponses ==
    { Obj(Compact([results |-> rs, total |-> tot, filters_applied |-> fa])) :
        rs \in { Undefined, Arr(<<>>) } \cup { Arr(<<r>>) : r \in BackendResults },
        tot \in { Undefined, Num(1) },
        fa \in { Undefined, Obj([query |-> Str("therapy")]) } }

\* transformBackendSearchResponse(bin) is called
ApplyReverseMapping ==
    /\ bout.status = "none"
    /\ bout' = LET out == TransformBackendSearchResponse(bin)
               IN  IF out.threw THEN [status |-> "threw", error |-> out.error]
                   ELSE [status |-> "returned", value |-> out.value]
    /\ UNCHANGED <<bin, tin, tout, tback, vin, vout, nin, nout, uin, uout,
                   evars, svars, pvars>>

ReverseInit ==
    /\ apiKeys = [p \in {"openai", "anthropic"} |-> FALSE]
    /\ ExtractIdle
    /\ SearchIdle
    /\ PageIdle
    /\ ValidateIdle
    /\ NormalizeIdle
    /\ tin = EmptyObject
    /\ tout = [status |-> "none"]
    /\ tback = [status |-> "none"]
    /\ URLIdle
    /\ bin \in PartialResponses
    /\ bout = [status |-> "none"]

ReverseNext == ApplyReverseMapping

SpecReverse == ReverseInit /\ [][ReverseNext]_vars

\* the results of bin, none when results is missing
GivenResults == IF Has(bin.v, "results") THEN bin.v["results"].v ELSE <<>>

\* C27 (tolerant reverse mapping): for a backend response with any of
\* results, total, filters_applied, and per result match, verification and
\* details missing, transformBackendSearchResponse does not raise; items is
\* [] when results is missing; match_score is match.score when the backend
\* supplies one (0 included) and 0.5 otherwise; provenance.source is
\* 'unknown' when no source is supplied.
C27_TolerantReverseMapping ==
    bout.status # "none" =>
        /\ bout.status = "returned"
        /\ Len(bout.value.v["items"].v) = Len(GivenResults)
        /\ ~Has(bin.v, "total") => bout.value.v["total"] = Num(0)
        /\ \A i \in 1..Len(GivenResults) :
              LET given == GivenResults[i]
                  item == bout.value.v["items"].v[i]
                  score == OptGet(Get(given, "match"), "score")
                  source == OptGet(Get(given, "verification"), "verification_method")
              IN  /\ item.v["match_score"] =
                         (IF score.t = "undefined" THEN Num(DefaultScore) ELSE score)
                  /\ item.v["provenance"].v["source"] =
                         (IF source.t = "undefined" THEN Str("unknown") ELSE source)


\* C28 (backoff schedule): the wait before retry number k of a client call
\* is 1000 * 2^(k-1) ms, i.e. 1000, 2000, 4000; there is one wait between
\* each pair of consecutive attempts, and none after the final attempt or
\* after a successful one.
C28_BackoffSchedule ==
    /\ Len(waits) <= 3
    /\ \A k \in 1..Len(waits) : waits[k] = 1000 * (2 ^ (k - 1))
    /\ spc \in {"fetching", "waiting"} => Len(waits) = Len(fetches)
    /\ CallEnded => Len(waits) = Len(fetches) - 1

\* a call was answered 503 three times and 200 on the fourth attempt: the
\* waits were 1000, 2000 and 4000 ms and none followed the success
C28_Witness ==
    /\ CallEnded
    /\ waits = <<1000, 2000, 4000>>
    /\ Len(fetches) = 4
    /\ ResponseOk(fetches[4])
    /\ \A i \in 1..3 : fetches[i].kind = "response" /\ fetches[i].status = 503


(***************************************************************************)
(* The search page (SearchPageContent) and its filters panel               *)
(* (CrisisFilters).  Filters of the page hold plain values; a field set to *)
(* undefined is a field left out.  A location is selected.                 *)
(***************************************************************************)
\* most searches one behaviour issues, pending extractions counted
MaxSearches == 4

\* updateFilter(key, value) of a panel rendered with `filters`: the object
\* onChange is called with
UpdateFilter(filters, key, value) == With(filters, key, value)

\* updateFilter(key, undefined)
ClearFilter(filters, key) == Without(filters, key)

AccessMethods == { "all", "walk-in", "referral" }

\* the value the access method select shows
DisplayedAccess(filters) ==
    IF Has(filters, "walk_ins_accepted") /\ filters["walk_ins_accepted"] THEN "walk-in"
    ELSE IF Has(filters, "referral_required") /\ filters["referral_required"]
    THEN "referral"
    ELSE "all"

\* onValueChange of the access method select: the two objects onChange is
\* called with, both built from the filters of the render the handler
\* belongs to
AccessChanges(filters, value) ==
    CASE value = "all" ->
             <<ClearFilter(filters, "walk_ins_accepted"),
               ClearFilter(filters, "referral_required")>>
      [] value = "walk-in" ->
             <<UpdateFilter(filters, "walk_ins_accepted", TRUE),
               ClearFilter(filters, "referral_required")>>
      [] OTHER ->
             <<ClearFilter(filters, "walk_ins_accepted"),
               UpdateFilter(filters, "referral_required", TRUE)>>

\* onValueChange of the insurance select
InsuranceChange(filters, value) ==
    IF value = "all" THEN ClearFilter(filters, "insurance")
    ELSE UpdateFilter(filters, "insurance", <<value>>)

\* the value the insurance select shows
DisplayedInsurance(filters) ==
    IF Has(filters, "insurance") THEN filters["insurance"][1] ELSE "all"

\* a search request as executeSearch has just sent it
Issued(searchFilters) == [filters |-> searchFilters, state |-> "inflight"]

\* the filters field of the extraction responses the page receives
ExtractedFilters ==
    { [keywords |-> "detox"],
      [keywords |-> "walk-in clinic", walk_ins_accepted |-> TRUE],
      [keywords |-> "by referral", referral_required |-> TRUE,
       urgentAccessOnly |-> FALSE] }

\* searchFilters of handleSearch
SearchFilters(extracted) ==
    With(With(extracted, "location", "Denver"), "urgentAccessOnly",
         IF Has(extracted, "urgentAccessOnly") THEN extracted["urgentAccessOnly"]
         ELSE TRUE)

\* handleSearch with a non-blank query, up to its first await
HandleSearch ==
    /\ extracting + Len(searches) < MaxSearches
    /\ isProcessing' = TRUE
    /\ perror' = "null"
    /\ extracting' = extracting + 1
    /\ UNCHANGED <<pfilters, presults, isSearching, searches, evars, svars, tvars>>

\* the extraction request of a handleSearch settles: the rest of handleSearch
\* up to the await inside executeSearch, or its catch
ExtractionSettles(ok, extracted) ==
    /\ extracting > 0
    /\ extracting' = extracting - 1
    /\ isProcessing' = FALSE
    /\ IF ok
       THEN /\ pfilters' = SearchFilters(extracted)
            /\ isSearching' = TRUE
            /\ perror' = "null"
            /\ searches' = Append(searches, Issued(SearchFilters(extracted)))
       ELSE /\ perror' = "Failed to process search query"
            /\ isSearching' = FALSE
            /\ UNCHANGED <<pfilters, searches>>
    /\ UNCHANGED <<presults, evars, svars, tvars>>

\* the access method select changes to `value`: updateFilter twice, each
\* through handleFilterChange (setFilters, then executeSearch up to its await)
SelectAccess(value) ==
    /\ value # DisplayedAccess(pfilters)
    /\ extracting + Len(searches) + 2 <= MaxSearches
    /\ pfilters' = AccessChanges(pfilters, value)[2]
    /\ isSearching' = TRUE
    /\ perror' = "null"
    /\ searches' = searches \o <<Issued(AccessChanges(pfilters, value)[1]),
                                 Issued(AccessChanges(pfilters, value)[2])>>
    /\ UNCHANGED <<presults, isProcessing, extracting, evars, svars, tvars>>

\* the insurance select changes to `value`
SelectInsurance(value) ==
    /\ value # DisplayedInsurance(pfilters)
    /\ extracting + Len(searches) < MaxSearches
    /\ pfilters' = InsuranceChange(pfilters, value)
    /\ isSearching' = TRUE
    /\ perror' = "null"
    /\ searches' = Append(searches, Issued(InsuranceChange(pfilters, value)))
    /\ UNCHANGED <<presults, isProcessing, extracting, evars, svars, tvars>>

\* the fetch of search number i settles: the rest of executeSearch
SearchSettles(i, ok) ==
    /\ i \in 1..Len(searches)
    /\ searches[i].state = "inflight"
    /\ searches' = [searches EXCEPT ![i].state = IF ok THEN "ok" ELSE "failed"]
    /\ IF ok
       THEN presults' = i /\ UNCHANGED perror
       ELSE perror' = "Search failed" /\ UNCHANGED presults
    /\ isSearching' = FALSE
    /\ UNCHANGED <<pfilters, isProcessing, extracting, evars, svars, tvars>>

PageInit ==
    /\ apiKeys = [p \in {"openai", "anthropic"} |-> FALSE]
    /\ ExtractIdle
    /\ SearchIdle
    /\ TransformIdle
    /\ ReverseIdle
    /\ PageIdle

PageNext ==
    \/ HandleSearch
    \/ \E extracted \in ExtractedFilters : ExtractionSettles(TRUE, extracted)
    \/ ExtractionSettles(FALSE, EmptyObject)
    \/ \E value \in AccessMethods : SelectAccess(value)
    \/ \E value \in { "all", "medicaid" } : SelectInsurance(value)
    \/ \E i \in 1..MaxSearches, ok \in BOOLEAN : SearchSettles(i, ok)

SpecPage == PageInit /\ [][PageNext]_vars

\* the filter state reflects the access method `value`
Reflects(filters, value) ==
    /\ Has(filters, "walk_ins_accepted") <=> value = "walk-in"
    /\ Has(filters, "walk_ins_accepted") => filters["walk_ins_accepted"] = TRUE
    /\ Has(filters, "referral_required") <=> value = "referral"
    /\ Has(filters, "referral_required") => filters["referral_required"] = TRUE

\* a selection of the access method select leaves the filter state
\* reflecting it
C29_SelectionReflected ==
    \A value \in AccessMethods : SelectAccess(value) => Reflects(pfilters', value)

\* walk_ins_accepted and referral_required are both true
BothAccessFlags ==
    /\ Has(pfilters, "walk_ins_accepted") /\ pfilters["walk_ins_accepted"]
    /\ Has(pfilters, "referral_required") /\ pfilters["referral_required"]

\* C29 (access-method selection): after a selection in the panel the filter
\* state of the page reflects it: 'walk-in' leaves walk_ins_accepted true and
\* referral_required unset, 'referral' leaves referral_required true and
\* walk_ins_accepted unset, 'all' leaves both unset; the two are never both
\* true.
C29_AccessSelection ==
    [][C29_SelectionReflected]_vars /\ []~BothAccessFlags


\* no extraction request and no search request is in flight
NothingInFlight ==
    /\ extracting = 0
    /\ \A i \in 1..Len(searches) : searches[i].state # "inflight"

\* C30 (page consistency under overlapping requests): once no request is in
\* flight, isProcessing and isSearching are both false, the most recently
\* issued search is the one for the current filter state, and, when it was
\* answered with results, the displayed results are its response and not
\* that of an earlier search.
C30_LatestResultsDisplayed ==
    (NothingInFlight /\ searches # <<>>) =>
        /\ ~isProcessing
        /\ ~isSearching
        /\ searches[Len(searches)].filters = pfilters
        /\ searches[Len(searches)].state = "ok" => presults = Len(searches)

=============================================================================
